---------------------------- MODULE Spec2Model ----------------------------
(***************************************************************************)
(* Euclidean affine functions and calendar algorithms (cassioneri/eaf).    *)
(*                                                                         *)
(* The model covers                                                        *)
(*   - quotient / remainder of common.hpp,                                 *)
(*   - the calendar conversions of eaf/julian.hpp and eaf/gregorian.hpp    *)
(*     with the bounds of eaf/limits.hpp, and algorithms/neri_schneider,   *)
(*   - the stepping loops of tests/eaf_tests.cpp over tests/tests.hpp,     *)
(*   - get_fast_eaf of paper/fast_eaf.cpp.                                 *)
(*                                                                         *)
(* The program computes on 32, 64 and 128 bit integers.  Values of the     *)
(* program are therefore kept as exact integers in sign and magnitude      *)
(* form, the magnitude being a little-endian sequence of limbs, and every  *)
(* C++ operation is the exact operation followed by what the type does to  *)
(* the exact result: reduction modulo 2^w for unsigned types, undefined    *)
(* behaviour for signed overflow.                                          *)
(***************************************************************************)
EXTENDS Integers, Sequences, FiniteSets, TLC

VARIABLES dv,   \* the call of quotient / remainder in progress
          cv,   \* the conversion (to_date, then to_rata_die) in progress
          st,   \* the stepping test in progress
          fe    \* the call of get_fast_eaf in progress

vars == <<dv, cv, st, fe>>

---------------------------------------------------------------------------
(***************************************************************************)
(* Exact natural numbers: little-endian limb sequences, no high zero limb. *)
(***************************************************************************)

\* a limb holds 15 bits: the product of two limbs and a carry is below 2^31
Base == 2^15

RECURSIVE NStrip(_)
NStrip(x) ==
  IF x = <<>> THEN <<>>
  ELSE IF x[Len(x)] = 0 THEN NStrip(SubSeq(x, 1, Len(x) - 1)) ELSE x

RECURSIVE NFromInt(_)
NFromInt(n) == IF n = 0 THEN <<>> ELSE <<n % Base>> \o NFromInt(n \div Base)

RECURSIVE NToInt(_)
NToInt(x) == IF x = <<>> THEN 0 ELSE Head(x) + Base * NToInt(Tail(x))

RECURSIVE NAddC(_, _, _)
NAddC(x, y, c) ==
  IF y = <<>> /\ c = 0 THEN x
  ELSE IF x = <<>> /\ c = 0 THEN y
  ELSE IF x = <<>> /\ y = <<>> THEN <<c>>
  ELSE LET a == IF x = <<>> THEN 0 ELSE Head(x)
           b == IF y = <<>> THEN 0 ELSE Head(y)
           s == a + b + c
       IN  <<s % Base>> \o NAddC(IF x = <<>> THEN x ELSE Tail(x),
                                 IF y = <<>> THEN y ELSE Tail(y),
                                 s \div Base)

NAdd(x, y) == NAddC(x, y, 0)

\* x - y for x >= y
RECURSIVE NSubB(_, _, _)
NSubB(x, y, b) ==
  IF y = <<>> /\ b = 0 THEN x
  ELSE LET yy == IF y = <<>> THEN 0 ELSE Head(y)
           t  == Head(x) - yy - b
       IN  <<t % Base>> \o NSubB(Tail(x),
                                 IF y = <<>> THEN y ELSE Tail(y),
                                 IF t < 0 THEN 1 ELSE 0)

NSub(x, y) == NStrip(NSubB(x, y, 0))

RECURSIVE NCmpAt(_, _, _)
NCmpAt(x, y, i) ==
  IF i = 0 THEN 0
  ELSE IF x[i] # y[i] THEN (IF x[i] < y[i] THEN -1 ELSE 1)
  ELSE NCmpAt(x, y, i - 1)

\* -1, 0 or 1 as x < y, x = y or x > y
NCmp(x, y) ==
  IF Len(x) # Len(y) THEN (IF Len(x) < Len(y) THEN -1 ELSE 1)
  ELSE NCmpAt(x, y, Len(x))

\* x * m + c for one limb m and a carry c
RECURSIVE NMulS(_, _, _)
NMulS(x, m, c) ==
  IF x = <<>> THEN (IF c = 0 THEN <<>> ELSE <<c>>)
  ELSE LET t == Head(x) * m + c
       IN  <<t % Base>> \o NMulS(Tail(x), m, t \div Base)

NShl1(x) == IF x = <<>> THEN <<>> ELSE <<0>> \o x

RECURSIVE NMul(_, _)
NMul(x, y) ==
  IF x = <<>> \/ y = <<>> THEN <<>>
  ELSE NAdd(NStrip(NMulS(x, Head(y), 0)), NShl1(NMul(x, Tail(y))))

\* <<quotient, remainder>> of x by one limb d > 0; the remainder is a limb
RECURSIVE NDivS(_, _)
NDivS(x, d) ==
  IF x = <<>> THEN <<<<>>, 0>>
  ELSE LET digit(hq, cur) ==
             <<IF hq = <<>> /\ cur < d THEN <<>> ELSE <<cur \div d>> \o hq,
               cur % d>>
           step(h) == digit(h[1], h[2] * Base + Head(x))
       IN  step(NDivS(Tail(x), d))

\* the largest q in lo..hi with y * q <= cur (y * lo <= cur is given)
RECURSIVE NQDigit(_, _, _, _)
NQDigit(cur, y, lo, hi) ==
  IF lo = hi THEN lo
  ELSE LET mid == (lo + hi + 1) \div 2
       IN  IF NCmp(NStrip(NMulS(y, mid, 0)), cur) <= 0
           THEN NQDigit(cur, y, mid, hi)
           ELSE NQDigit(cur, y, lo, mid - 1)

\* <<quotient, remainder>> of x by y > 0 (long division, a limb at a time)
RECURSIVE NDivL(_, _)
NDivL(x, y) ==
  IF x = <<>> THEN <<<<>>, <<>>>>
  ELSE LET out(hq, cur, qd) ==
             <<IF hq = <<>> /\ qd = 0 THEN <<>> ELSE <<qd>> \o hq,
               NSub(cur, NStrip(NMulS(y, qd, 0)))>>
           digit(hq, cur) ==
             out(hq, cur,
                 IF NCmp(cur, y) < 0 THEN 0 ELSE NQDigit(cur, y, 1, Base - 1))
           step(h) == digit(h[1], NStrip(<<Head(x)>> \o h[2]))
       IN  step(NDivL(Tail(x), y))

NDivMod(x, y) ==
  IF Len(y) = 1
  THEN LET pair(h) == <<h[1], NFromInt(h[2])>> IN pair(NDivS(x, y[1]))
  ELSE NDivL(x, y)

RECURSIVE NPow2(_)
NPow2(k) == IF k < 15 THEN <<2^k>> ELSE <<0>> \o NPow2(k - 15)

\* x mod 2^k
NModPow2(x, k) ==
  LET nl == k \div 15
      nb == k % 15
  IN  IF Len(x) > nl
      THEN NStrip(SubSeq(x, 1, nl) \o <<x[nl + 1] % (2^nb)>>)
      ELSE x

---------------------------------------------------------------------------
(***************************************************************************)
(* Exact integers: sign and magnitude.                                     *)
(***************************************************************************)

ZMake(neg, mag) == [neg |-> neg /\ mag # <<>>, mag |-> mag]

\* the integer i, for -2^31 < i < 2^31
Z(i) == IF i < 0 THEN ZMake(TRUE, NFromInt(-i)) ELSE ZMake(FALSE, NFromInt(i))

\* the value of x, for -2^31 < x < 2^31
ZToInt(x) == IF x.neg THEN -NToInt(x.mag) ELSE NToInt(x.mag)

ZPow2(k) == ZMake(FALSE, NPow2(k))

ZNeg(x) == ZMake(~x.neg, x.mag)

ZAdd(x, y) ==
  IF x.neg = y.neg THEN ZMake(x.neg, NAdd(x.mag, y.mag))
  ELSE LET differ(c) ==
             IF c = 0 THEN ZMake(FALSE, <<>>)
             ELSE IF c > 0 THEN ZMake(x.neg, NSub(x.mag, y.mag))
             ELSE ZMake(y.neg, NSub(y.mag, x.mag))
       IN  differ(NCmp(x.mag, y.mag))

ZSub(x, y) == ZAdd(x, ZNeg(y))

ZMul(x, y) == ZMake(x.neg # y.neg, NMul(x.mag, y.mag))

ZCmp(x, y) ==
  IF x.neg # y.neg THEN (IF x.neg THEN -1 ELSE 1)
  ELSE IF x.neg THEN NCmp(y.mag, x.mag) ELSE NCmp(x.mag, y.mag)

ZLt(x, y) == ZCmp(x, y) < 0
ZLe(x, y) == ZCmp(x, y) <= 0

ZIsNeg(x) == x.neg

\* C++ operator / on integers: truncation towards zero (y # 0)
ZDivT(x, y) == ZMake(x.neg # y.neg, NDivMod(x.mag, y.mag)[1])

\* C++ operator % on integers: the sign of the dividend (y # 0)
ZRemT(x, y) == ZMake(x.neg, NDivMod(x.mag, y.mag)[2])

\* x mod 2^k, in [0, 2^k)
ZModPow2(x, k) ==
  LET residue(r) ==
        IF x.neg /\ r # <<>> THEN ZMake(FALSE, NSub(NPow2(k), r))
        ELSE ZMake(FALSE, r)
  IN  residue(NModPow2(x.mag, k))

\* the decimal numeral of x, for the reader of a behaviour
RECURSIVE NStr(_)
NStr(x) ==
  IF x = <<>> THEN "0"
  ELSE LET digits(hq, r) ==
             IF hq = <<>> THEN ToString(r)
             ELSE NStr(hq)
                    \o (IF r < 10 THEN "000" ELSE IF r < 100 THEN "00"
                        ELSE IF r < 1000 THEN "0" ELSE "")
                    \o ToString(r)
           split(h) == digits(h[1], h[2])
       IN  split(NDivS(x, 10000))

ZStr(x) == IF x.neg THEN "-" \o NStr(x.mag) ELSE NStr(x.mag)

---------------------------------------------------------------------------
(***************************************************************************)
(* The integer types of the program.                                       *)
(***************************************************************************)

\* std::numeric_limits<T>::min() and max() of the signed type of w bits
TMin(w) == ZNeg(ZPow2(w - 1))
TMax(w) == ZMake(FALSE, NSub(NPow2(w - 1), <<1>>))

\* std::numeric_limits<uint_t>::max() of the unsigned type of w bits
UMax(w) == ZMake(FALSE, NSub(NPow2(w), <<1>>))

\* x is a value of the signed type of w bits
FitsS(w, x) == ZLe(TMin(w), x) /\ ZLe(x, TMax(w))

\* conversion to the unsigned type of w bits
WrapU(w, x) == ZModPow2(x, w)

\* conversion to the signed type of w bits (two's complement)
WrapS(w, x) ==
  LET signed(u) == IF NCmp(u.mag, NPow2(w - 1)) >= 0
                   THEN ZMake(TRUE, NSub(NPow2(w), u.mag))
                   ELSE u
  IN  signed(ZModPow2(x, w))

\* What a build does when a signed operation overflows: the two's
\* complement result (the usual code), or a trap (-ftrapv, a sanitizer).
UB_Outcomes == {"wrap", "trap"}

---------------------------------------------------------------------------
(***************************************************************************)
(* The operations of the integer types.  A value of the program is a       *)
(* record [v, ub]: the value the wrapping build holds, and whether a       *)
(* signed operation overflowed on the way to it.                           *)
(***************************************************************************)

\* A local constant of a function is a function of one argument: the
\* constant is computed once, and Val is what follows it.
Val(f) == f[CHOOSE x \in DOMAIN f : TRUE]

V(x) == [v |-> x, ub |-> FALSE]
I(i) == V(Z(i))

\* the exact result x as a value of the signed / unsigned type of w bits; a
\* signed operation overflows when x is not a value of the type, which is
\* when the conversion changes it
Signed(w, x, ub) ==
  LET result(r) == [v |-> r, ub |-> ub \/ r # x]
  IN  result(WrapS(w, x))
Unsigned(w, x, ub) == [v |-> WrapU(w, x), ub |-> ub]

\* +, - and * of the signed type of w bits
SAdd(w, x, y) == Signed(w, ZAdd(x.v, y.v), x.ub \/ y.ub)
SSub(w, x, y) == Signed(w, ZSub(x.v, y.v), x.ub \/ y.ub)
SMul(w, x, y) == Signed(w, ZMul(x.v, y.v), x.ub \/ y.ub)

\* +, - and * of the unsigned type of w bits
UAdd(w, x, y) == Unsigned(w, ZAdd(x.v, y.v), x.ub \/ y.ub)
USub(w, x, y) == Unsigned(w, ZSub(x.v, y.v), x.ub \/ y.ub)
UMul(w, x, y) == Unsigned(w, ZMul(x.v, y.v), x.ub \/ y.ub)

\* / and % (the divisors of the program are positive)
Div(x, y) == [v |-> ZDivT(x.v, y.v), ub |-> x.ub \/ y.ub]
Rem(x, y) == [v |-> ZRemT(x.v, y.v), ub |-> x.ub \/ y.ub]

\* conversion to the signed / unsigned type of w bits
ToS(w, x) == [v |-> WrapS(w, x.v), ub |-> x.ub]
ToU(w, x) == Unsigned(w, x.v, x.ub)

\* T + uint32_t and T - uint32_t, the result converted to T.  For
\* T = int32_t both operands become unsigned int; for T = int64_t the
\* operation is the signed one of 64 bits.
TUAdd(w, x, y) == IF w = 32 THEN ToS(32, UAdd(32, x, y)) ELSE SAdd(w, x, y)
TUSub(w, x, y) == IF w = 32 THEN ToS(32, USub(32, x, y)) ELSE SSub(w, x, y)

\* date_t<T>
Date(y, m, d) == [year |-> y, month |-> m, day |-> d]

\* the date returned from values of the program
date_of(Y, M, D) ==
  [date |-> Date(Y.v, M.v, D.v), ub |-> Y.ub \/ M.ub \/ D.ub]

\* the rata die returned from a value of the program
rata_die_of(N) == [N |-> N.v, ub |-> N.ub]

---------------------------------------------------------------------------
(***************************************************************************)
(* common.hpp: Euclidean division.                                         *)
(***************************************************************************)

\* T quotient(T n, int32_t d): n >= 0 ? n / d : (n - (d - 1)) / d
quotient(w, n, d) ==
  IF ~ZIsNeg(n.v) THEN Div(n, d)
  ELSE Div(SSub(w, n, SSub(32, d, I(1))), d)

\* uint32_t remainder(T n, int32_t d):
\* uint32_t(n >= 0 ? n % d : n - d * quotient(n, d))
remainder(w, n, d) ==
  IF ~ZIsNeg(n.v) THEN ToU(32, Rem(n, d))
  ELSE ToU(32, SSub(w, n, SMul(w, d, quotient(w, n, d))))

---------------------------------------------------------------------------
(***************************************************************************)
(* eaf/limits.hpp                                                          *)
(***************************************************************************)

\* limits<T>
limits_rata_die_max(w) == ZDivT(ZSub(TMax(w), Z(3)), Z(4))
limits_rata_die_min(w) == ZDivT(TMin(w), Z(4))
limits_date_max(w) == Date(ZAdd(ZDivT(TMax(w), Z(1461)), Z(1)), Z(2), Z(28))
\* a faulty date_min, one year too early
limits_date_min_mutant(w) ==
  Date(ZSub(ZDivT(TMin(w), Z(1461)), Z(1)), Z(3), Z(1))
limits_date_min(w) == Date(ZDivT(TMin(w), Z(1461)), Z(3), Z(1))

\* a faulty K, with 146096 days in 400 years
opt_K_mutant(epoch, s) == ZAdd(epoch, ZMul(Z(146096), s))

\* limits_gregorian_opt<T, epoch, s>
opt_K(epoch, s) == ZAdd(epoch, ZMul(Z(146097), s))
\* a faulty L, with 399 years in a cycle
opt_L_mutant(s) == ZMul(Z(399), s)
opt_L(s) == ZMul(Z(400), s)
opt_rata_die_max(w, epoch, s) ==
  ZSub(WrapS(w, ZDivT(ZSub(UMax(w), Z(3)), Z(4))), opt_K(epoch, s))
\* a faulty rata_die_min, which leaves out the cycles of K
opt_rata_die_min_mutant(w, epoch, s) == ZNeg(epoch)
opt_rata_die_min(w, epoch, s) == ZNeg(opt_K(epoch, s))
\* a faulty date_max, one year too late
opt_date_max_mutant(w, epoch, s) ==
  Date(ZAdd(ZSub(WrapS(w, ZDivT(UMax(w), Z(1461))), opt_L(s)), Z(2)),
       Z(2), Z(28))
opt_date_max(w, epoch, s) ==
  Date(ZAdd(ZSub(WrapS(w, ZDivT(UMax(w), Z(1461))), opt_L(s)), Z(1)),
       Z(2), Z(28))
opt_date_min(w, epoch, s) == Date(ZNeg(opt_L(s)), Z(3), Z(1))

---------------------------------------------------------------------------
(***************************************************************************)
(* eaf/julian.hpp.  A result is [date, ub] or [N, ub]: what the wrapping   *)
(* build returns and whether a signed operation overflowed on the way.     *)
(***************************************************************************)

julian_to_date(w, N) ==
  \* Year.
  Val([N_1 \in {SAdd(w, SMul(w, I(4), N), I(3))} |->
  Val([Y   \in {quotient(w, N_1, I(1461))} |->
  Val([N_Y \in {Div(remainder(w, N_1, I(1461)), I(4))} |->
  \* Month and day.
  Val([N_2 \in {UAdd(32, UMul(32, I(5), N_Y), I(461))} |->
  Val([M   \in {Div(N_2, I(153))} |->
  Val([D   \in {Div(Rem(N_2, I(153)), I(5))} |->
  \* Map.
  Val([J   \in {IF ZLe(Z(13), M.v) THEN I(1) ELSE I(0)} |->
  Val([Y_J \in {TUAdd(w, Y, J)} |->
  Val([M_J \in {USub(32, M, UMul(32, I(12), J))} |->
  Val([D_J \in {UAdd(32, D, I(1))} |->
  date_of(Y_J, M_J, D_J) ]) ]) ]) ]) ]) ]) ]) ]) ]) ])

julian_to_rata_die(w, Y_J, M_J, D_J) ==
  \* Map.
  Val([J      \in {IF ZLe(M_J.v, Z(2)) THEN I(1) ELSE I(0)} |->
  Val([Y      \in {TUSub(w, Y_J, J)} |->
  Val([M      \in {UAdd(32, M_J, UMul(32, I(12), J))} |->
  Val([D      \in {USub(32, D_J, I(1))} |->
  \* Rata die.
  Val([y_star \in {quotient(w, SMul(w, I(1461), Y), I(4))} |->
  Val([m_star \in {Div(USub(32, UMul(32, I(153), M), I(457)), I(5))} |->
  Val([N      \in {TUAdd(w, TUAdd(w, y_star, m_star), D)} |->
  rata_die_of(N) ]) ]) ]) ]) ]) ]) ])

---------------------------------------------------------------------------
(***************************************************************************)
(* eaf/gregorian.hpp                                                       *)
(***************************************************************************)

gregorian_to_date(w, N) ==
  \* Century.
  Val([N_1 \in {SAdd(w, SMul(w, I(4), N), I(3))} |->
  Val([C   \in {quotient(w, N_1, I(146097))} |->
  Val([N_C \in {Div(remainder(w, N_1, I(146097)), I(4))} |->
  \* Year.
  Val([N_2 \in {UAdd(32, UMul(32, I(4), N_C), I(3))} |->
  Val([Zc  \in {Div(N_2, I(1461))} |->
  Val([N_Y \in {Div(Rem(N_2, I(1461)), I(4))} |->
  Val([Y   \in {TUAdd(w, SMul(w, I(100), C), Zc)} |->
  \* Month and day.
  Val([N_3 \in {UAdd(32, UMul(32, I(5), N_Y), I(461))} |->
  Val([M   \in {Div(N_3, I(153))} |->
  Val([D   \in {Div(Rem(N_3, I(153)), I(5))} |->
  \* Map.
  Val([J   \in {IF ZLe(Z(13), M.v) THEN I(1) ELSE I(0)} |->
  Val([Y_G \in {TUAdd(w, Y, J)} |->
  Val([M_G \in {USub(32, M, UMul(32, I(12), J))} |->
  Val([D_G \in {UAdd(32, D, I(1))} |->
  date_of(Y_G, M_G, D_G) ]) ]) ]) ]) ]) ]) ]) ]) ]) ]) ]) ]) ]) ])

gregorian_to_rata_die(w, Y_G, M_G, D_G) ==
  \* Map.
  Val([J      \in {IF ZLe(M_G.v, Z(2)) THEN I(1) ELSE I(0)} |->
  Val([Y      \in {TUSub(w, Y_G, J)} |->
  Val([M      \in {UAdd(32, M_G, UMul(32, I(12), J))} |->
  Val([D      \in {USub(32, D_G, I(1))} |->
  Val([C      \in {quotient(w, Y, I(100))} |->
  \* Rata die.
  Val([y_star \in {SAdd(w, SSub(w, quotient(w, SMul(w, I(1461), Y), I(4)), C),
                   quotient(w, C, I(4)))} |->
  Val([m_star \in {Div(USub(32, UMul(32, I(153), M), I(457)), I(5))} |->
  Val([N      \in {TUAdd(w, TUAdd(w, y_star, m_star), D)} |->
  rata_die_of(N) ]) ]) ]) ]) ]) ]) ]) ])

\* a faulty year step: the multiplier is 2^32 / 1461 rounded down
to_date_opt_year_mutant(N_C) ==
  Val([N_2 \in {WrapU(32, ZAdd(ZMul(Z(4), N_C), Z(3)))} |->
  Val([P_2 \in {WrapU(64, ZMul(Z(2939744), N_2))} |->
  [N_2 |-> N_2, P_2 |-> P_2,
   Z   |-> WrapU(32, ZDivT(P_2, ZPow2(32))),
   N_Y |-> ZDivT(ZDivT(WrapU(32, ZRemT(P_2, ZPow2(32))), Z(2939745)), Z(4))] ]) ])

\* the year step of to_date_opt: N_2, P_2, Z and N_Y of N_C
to_date_opt_year(N_C) ==
  Val([N_2 \in {WrapU(32, ZAdd(ZMul(Z(4), N_C), Z(3)))} |->
  Val([P_2 \in {WrapU(64, ZMul(Z(2939745), N_2))} |->
  [N_2 |-> N_2, P_2 |-> P_2,
   Z   |-> WrapU(32, ZDivT(P_2, ZPow2(32))),
   N_Y |-> ZDivT(ZDivT(WrapU(32, ZRemT(P_2, ZPow2(32))), Z(2939745)), Z(4))] ]) ])

\* a faulty map test, which takes the last day of December for January
to_date_opt_J_mutant(N_Y) == ZLe(Z(305), N_Y)

\* the map test of to_date_opt: J = N_Y >= 306
to_date_opt_J(N_Y) == ZLe(Z(306), N_Y)

\* to_date_opt<T, epoch, s>: unsigned arithmetic of w bits throughout
gregorian_to_date_opt(w, epoch, s, N_U) ==
  \* Shift and correction constants.
  Val([K   \in {opt_K(epoch, s)} |->
  Val([L   \in {opt_L(s)} |->
  \* Rata die shift.
  Val([N   \in {WrapU(w, ZAdd(WrapU(w, N_U), WrapU(w, K)))} |->
  \* Century.
  Val([N_1 \in {WrapU(w, ZAdd(ZMul(Z(4), N), Z(3)))} |->
  Val([C   \in {ZDivT(N_1, Z(146097))} |->
  Val([N_C \in {WrapU(32, ZDivT(ZRemT(N_1, Z(146097)), Z(4)))} |->
  \* Year.
  Val([year \in {to_date_opt_year(N_C)} |->
  Val([Zc  \in {year.Z} |->
  Val([N_Y \in {year.N_Y} |->
  Val([Y   \in {WrapU(w, ZAdd(ZMul(Z(100), C), Zc))} |->
  \* Month and day.
  Val([N_3 \in {WrapU(32, ZAdd(ZMul(Z(2141), N_Y), Z(197913)))} |->
  Val([M   \in {ZDivT(N_3, Z(65536))} |->
  Val([D   \in {ZDivT(ZRemT(N_3, Z(65536)), Z(2141))} |->
  \* Map.
  Val([J   \in {to_date_opt_J(N_Y)} |->
  Val([Y_G \in {WrapS(w, WrapU(w, ZAdd(ZSub(Y, L), IF J THEN Z(1) ELSE Z(0))))} |->
  Val([M_G \in {IF J THEN WrapU(32, ZSub(M, Z(12))) ELSE M} |->
  Val([D_G \in {WrapU(32, ZAdd(D, Z(1)))} |->
  [date |-> Date(Y_G, M_G, D_G), ub |-> FALSE] ]) ]) ]) ]) ]) ]) ]) ]) ]) ]) ]) ]) ]) ]) ]) ]) ])

\* to_rata_die_opt<T, epoch, s>: unsigned arithmetic of w bits throughout
gregorian_to_rata_die_opt(w, epoch, s, Y_G, M_G, D_G) ==
  \* Shift and correction constants.
  Val([K      \in {opt_K(epoch, s)} |->
  Val([L      \in {opt_L(s)} |->
  \* Map.
  Val([J      \in {ZLe(M_G, Z(2))} |->
  Val([Y      \in {WrapU(w, ZSub(ZAdd(WrapU(w, Y_G), WrapU(w, L)),
                   IF J THEN Z(1) ELSE Z(0)))} |->
  Val([M      \in {IF J THEN WrapU(32, ZAdd(M_G, Z(12))) ELSE M_G} |->
  Val([D      \in {WrapU(32, ZSub(D_G, Z(1)))} |->
  Val([C      \in {ZDivT(Y, Z(100))} |->
  \* Rata die.
  Val([y_star \in {WrapU(w, ZAdd(ZSub(ZDivT(WrapU(w, ZMul(Z(1461), Y)), Z(4)), C),
                   ZDivT(C, Z(4))))} |->
  Val([m_star \in {ZDivT(WrapU(32, ZSub(ZMul(Z(153), M), Z(457))), Z(5))} |->
  Val([N      \in {WrapU(w, ZAdd(ZAdd(y_star, m_star), D))} |->
  \* Rata die shift.
  Val([N_U    \in {WrapU(w, ZSub(N, K))} |->
  [N |-> WrapS(w, N_U), ub |-> FALSE] ]) ]) ]) ]) ]) ]) ]) ]) ]) ]) ])

---------------------------------------------------------------------------
(***************************************************************************)
(* algorithms/neri_schneider.hpp: the 32 bit algorithm, constants written  *)
(* out.                                                                    *)
(***************************************************************************)

neri_schneider_s == Z(82)
neri_schneider_K == WrapU(32, ZAdd(Z(719468), ZMul(Z(146097), neri_schneider_s)))
neri_schneider_L == WrapU(32, ZMul(Z(400), neri_schneider_s))

neri_schneider_to_date(N_U) ==
  Val([N   \in {WrapU(32, ZAdd(WrapU(32, N_U), neri_schneider_K))} |->
  Val([N_1 \in {WrapU(32, ZAdd(ZMul(Z(4), N), Z(3)))} |->
  Val([C   \in {ZDivT(N_1, Z(146097))} |->
  Val([N_C \in {ZDivT(ZRemT(N_1, Z(146097)), Z(4))} |->
  Val([N_2 \in {WrapU(32, ZAdd(ZMul(Z(4), N_C), Z(3)))} |->
  Val([P_2 \in {WrapU(64, ZMul(Z(2939745), N_2))} |->
  Val([Zc  \in {WrapU(32, ZDivT(P_2, ZPow2(32)))} |->
  Val([N_Y \in {ZDivT(ZDivT(WrapU(32, ZRemT(P_2, ZPow2(32))), Z(2939745)), Z(4))} |->
  Val([Y   \in {WrapU(32, ZAdd(ZMul(Z(100), C), Zc))} |->
  Val([N_3 \in {WrapU(32, ZAdd(ZMul(Z(2141), N_Y), Z(197913)))} |->
  Val([M   \in {ZDivT(N_3, Z(65536))} |->
  Val([D   \in {ZDivT(ZRemT(N_3, Z(65536)), Z(2141))} |->
  Val([J   \in {ZLe(Z(306), N_Y)} |->
  Val([Y_G \in {WrapS(32, WrapU(32, ZAdd(ZSub(Y, neri_schneider_L),
                IF J THEN Z(1) ELSE Z(0))))} |->
  Val([M_G \in {IF J THEN WrapU(32, ZSub(M, Z(12))) ELSE M} |->
  Val([D_G \in {WrapU(32, ZAdd(D, Z(1)))} |->
  [date |-> Date(Y_G, M_G, D_G), ub |-> FALSE] ]) ]) ]) ]) ]) ]) ]) ]) ]) ]) ]) ]) ]) ]) ]) ])

\* a faulty m_star: the multiplier is 978
neri_schneider_m_star_mutant(M) ==
  ZDivT(WrapU(32, ZSub(ZMul(Z(978), M), Z(2919))), Z(32))

\* m_star of to_rata_die, for the uint32_t M
neri_schneider_m_star(M) ==
  ZDivT(WrapU(32, ZSub(ZMul(Z(979), M), Z(2919))), Z(32))

neri_schneider_to_rata_die(Y_G, M_G, D_G) ==
  Val([J      \in {ZLe(M_G, Z(2))} |->
  Val([Y      \in {WrapU(32, ZSub(ZAdd(WrapU(32, Y_G), neri_schneider_L),
                   IF J THEN Z(1) ELSE Z(0)))} |->
  Val([M      \in {IF J THEN WrapU(32, ZAdd(M_G, Z(12))) ELSE M_G} |->
  Val([D      \in {WrapU(32, ZSub(D_G, Z(1)))} |->
  Val([C      \in {ZDivT(Y, Z(100))} |->
  Val([y_star \in {WrapU(32, ZAdd(ZSub(ZDivT(WrapU(32, ZMul(Z(1461), Y)), Z(4)), C),
                   ZDivT(C, Z(4))))} |->
  Val([m_star \in {neri_schneider_m_star(M)} |->
  Val([N      \in {WrapU(32, ZAdd(ZAdd(y_star, m_star), D))} |->
  Val([N_U    \in {WrapU(32, ZSub(N, neri_schneider_K))} |->
  [N |-> WrapS(32, N_U), ub |-> FALSE] ]) ]) ]) ]) ]) ]) ]) ]) ])

---------------------------------------------------------------------------
(***************************************************************************)
(* Calls of quotient and remainder on chosen arguments.                    *)
(***************************************************************************)

\* How far from 0 and from the ends of T the dividends are drawn, and the
\* largest divisor drawn besides the divisors the program itself uses.
DivSpan == 3
MaxDivisor == 5

DivWidths == {32, 64}

DivDividends(w) ==
     {ZAdd(TMin(w), Z(i)) : i \in 0..DivSpan}
  \cup {Z(i) : i \in -DivSpan..DivSpan}
  \cup {ZSub(TMax(w), Z(i)) : i \in 0..DivSpan}

\* 4, 100, 1461 and 146097 are the divisors of julian.hpp and gregorian.hpp
DivDivisors == {Z(i) : i \in (1..MaxDivisor) \cup {4, 100, 1461, 146097}}

\* no call in progress
DivIdle == [pc |-> "idle"]
ConvIdle == [pc |-> "idle"]
StepIdle == [pc |-> "idle"]
FastIdle == [pc |-> "idle"]

DivInit ==
  /\ cv = ConvIdle /\ st = StepIdle /\ fe = FastIdle
  /\ dv \in {[pc |-> "args", w |-> w, n |-> n, d |-> d,
              qdone |-> FALSE, q |-> Z(0), rdone |-> FALSE, r |-> Z(0),
              txt |-> [n |-> ZStr(n), d |-> ZStr(d), q |-> "", r |-> ""]] :
             w \in DivWidths,
             n \in UNION {DivDividends(w1) : w1 \in DivWidths},
             d \in DivDivisors}
  /\ FitsS(dv.w, dv.n)

\* A call of quotient(n, d); an overflowing signed operation may trap.
CallQuotient ==
  /\ dv.pc = "args" /\ ~dv.qdone
  /\ \E res \in {quotient(dv.w, V(dv.n), V(dv.d))} :
         \/ dv' = [dv EXCEPT !.qdone = TRUE, !.q = res.v,
                              !.txt.q = ZStr(res.v)]
         \/ res.ub /\ dv' = [dv EXCEPT !.pc = "trapped"]
  /\ UNCHANGED <<cv, st, fe>>

\* A call of remainder(n, d); an overflowing signed operation may trap.
CallRemainder ==
  /\ dv.pc = "args" /\ ~dv.rdone
  /\ \E res \in {remainder(dv.w, V(dv.n), V(dv.d))} :
         \/ dv' = [dv EXCEPT !.rdone = TRUE, !.r = res.v,
                              !.txt.r = ZStr(res.v)]
         \/ res.ub /\ dv' = [dv EXCEPT !.pc = "trapped"]
  /\ UNCHANGED <<cv, st, fe>>

DivNext == CallQuotient \/ CallRemainder

SpecDiv == DivInit /\ [][DivNext]_vars

---------------------------------------------------------------------------
(***************************************************************************)
(* C10: for every value n of the signed type T and every divisor d > 0,    *)
(* the results of quotient(n, d) and remainder(n, d) satisfy               *)
(* n = quotient(n, d) * d + remainder(n, d) and 0 <= remainder(n, d) < d.  *)
(***************************************************************************)
C10_EuclideanDivision ==
  /\ dv.pc # "trapped"
  /\ (dv.pc = "args" /\ dv.qdone /\ dv.rdone) =>
     /\ dv.n = ZAdd(ZMul(dv.q, dv.d), dv.r)
     /\ ZLe(Z(0), dv.r) /\ ZLt(dv.r, dv.d)

---------------------------------------------------------------------------
(***************************************************************************)
(* The calendars under test: the four of tests/eaf_tests.cpp, all with     *)
(* T = int32_t, and neri_schneider of tests/algorithm_tests.cpp.  Below    *)
(* this point rata dies, years, months and days are plain integers.        *)
(***************************************************************************)

Calendars == {"julian", "gregorian", "gregorian_opt", "gregorian_unix"}
Algorithms == Calendars \cup {"neri_schneider"}

date32(y, m, d) == [year |-> y, month |-> m, day |-> d]
DateOfZ(date) ==
  date32(ZToInt(date.year), ZToInt(date.month), ZToInt(date.day))

\* operator <(date_t, date_t)
date_lt(x, y) ==
  IF x.year < y.year THEN TRUE
  ELSE IF y.year < x.year THEN FALSE
  ELSE IF x.month < y.month THEN TRUE
  ELSE IF y.month < x.month THEN FALSE
  ELSE x.day < y.day

calendar_epoch(cal) ==
  IF cal \in {"gregorian_unix", "neri_schneider"} THEN date32(1970, 1, 1)
  ELSE date32(0, 3, 1)

\* the template arguments epoch and s of gregorian_opt and gregorian_unix
opt_epoch(cal) == IF cal = "gregorian_unix" THEN Z(719468) ELSE Z(0)
opt_s(cal) == IF cal = "gregorian_unix" THEN Z(82) ELSE Z(0)

\* results in plain integers
date_result(res) == [date |-> DateOfZ(res.date), ub |-> res.ub]
rata_die_result(res) == [N |-> ZToInt(res.N), ub |-> res.ub]

\* to_date of the calendars of eaf_tests.cpp
calendar_to_date(cal, N) ==
  date_result(
    CASE cal = "julian"    -> julian_to_date(32, I(N))
      [] cal = "gregorian" -> gregorian_to_date(32, I(N))
      [] OTHER             ->
           gregorian_to_date_opt(32, opt_epoch(cal), opt_s(cal), Z(N)))

\* to_rata_die of the calendars of eaf_tests.cpp
calendar_to_rata_die(cal, date) ==
  rata_die_result(
    CASE cal = "julian"    ->
           julian_to_rata_die(32, I(date.year), I(date.month), I(date.day))
      [] cal = "gregorian" ->
           gregorian_to_rata_die(32, I(date.year), I(date.month), I(date.day))
      [] OTHER             ->
           gregorian_to_rata_die_opt(32, opt_epoch(cal), opt_s(cal),
                                     Z(date.year), Z(date.month), Z(date.day)))

calendar_rata_die_min(cal) ==
  IF cal \in {"julian", "gregorian"} THEN ZToInt(limits_rata_die_min(32))
  ELSE ZToInt(opt_rata_die_min(32, opt_epoch(cal), opt_s(cal)))

calendar_rata_die_max(cal) ==
  IF cal \in {"julian", "gregorian"} THEN ZToInt(limits_rata_die_max(32))
  ELSE ZToInt(opt_rata_die_max(32, opt_epoch(cal), opt_s(cal)))

calendar_date_min(cal) ==
  IF cal \in {"julian", "gregorian"} THEN DateOfZ(limits_date_min(32))
  ELSE DateOfZ(opt_date_min(32, opt_epoch(cal), opt_s(cal)))

calendar_date_max(cal) ==
  IF cal \in {"julian", "gregorian"} THEN DateOfZ(limits_date_max(32))
  ELSE DateOfZ(opt_date_max(32, opt_epoch(cal), opt_s(cal)))

\* the same of the algorithms: the calendars and neri_schneider
algorithm_to_date(alg, N) ==
  IF alg = "neri_schneider" THEN date_result(neri_schneider_to_date(Z(N)))
  ELSE calendar_to_date(alg, N)

algorithm_to_rata_die(alg, date) ==
  IF alg = "neri_schneider"
  THEN rata_die_result(neri_schneider_to_rata_die(
                         Z(date.year), Z(date.month), Z(date.day)))
  ELSE calendar_to_rata_die(alg, date)

\* limits of neri_schneider.hpp: rata_die_min = -12699422, rata_die_max =
\* 1061042401, date_min = (-32800, 3, 1), date_max = (2906945, 2, 28)
algorithm_rata_die_min(alg) ==
  IF alg = "neri_schneider" THEN -12699422 ELSE calendar_rata_die_min(alg)

algorithm_rata_die_max(alg) ==
  IF alg = "neri_schneider" THEN 1061042401 ELSE calendar_rata_die_max(alg)

algorithm_date_min(alg) ==
  IF alg = "neri_schneider" THEN date32(-32800, 3, 1)
  ELSE calendar_date_min(alg)

algorithm_date_max(alg) ==
  IF alg = "neri_schneider" THEN date32(2906945, 2, 28)
  ELSE calendar_date_max(alg)

---------------------------------------------------------------------------
(***************************************************************************)
(* tests/tests.hpp: the day by day incrementer and decrementer.            *)
(***************************************************************************)

\* julian_leap_t::is_leap_year: y % 4 == 0
julian_is_leap_year(y) == y % 4 = 0

\* a faulty leap year rule, the one of the Julian calendar
gregorian_is_leap_year_mutant(y) == y % 4 = 0

\* gregorian_leap_t::is_leap_year: (y & (y % 25 == 0 ? 15 : 3)) == 0.
\* On two's complement y & (2^j - 1) is y modulo 2^j.
gregorian_is_leap_year(y) ==
  LET mask == IF y % 25 = 0 THEN 15 ELSE 3
  IN  y % (mask + 1) = 0

is_leap_year(cal, y) ==
  IF cal = "julian" THEN julian_is_leap_year(y) ELSE gregorian_is_leap_year(y)

\* m != 2 ? ((m ^ (m >> 3))) | 30 : is_leap_year(y) ? 29 : 28.  For m < 16,
\* m >> 3 is 0 or 1, the xor changes the lowest bit of m only, and | 30
\* sets the bits 1 to 4: the value is 30 plus the lowest bit of the xor.
last_day_of_month(cal, y, m) ==
  IF m # 2 THEN 30 + ((m + (m \div 8)) % 2)
  ELSE IF is_leap_year(cal, y) THEN 29 ELSE 28

advance(cal, date) ==
  IF date.day # last_day_of_month(cal, date.year, date.month)
  THEN [date EXCEPT !.day = @ + 1]
  ELSE IF date.month # 12
       THEN [date EXCEPT !.day = 1, !.month = @ + 1]
       ELSE [date EXCEPT !.day = 1, !.month = 1, !.year = @ + 1]

regress(cal, date) ==
  IF date.day # 1 THEN [date EXCEPT !.day = @ - 1]
  ELSE LET ym == IF date.month # 1 THEN [date EXCEPT !.month = @ - 1]
                 ELSE [date EXCEPT !.month = 12, !.year = @ - 1]
       IN  [ym EXCEPT !.day = last_day_of_month(cal, ym.year, ym.month)]

---------------------------------------------------------------------------
(***************************************************************************)
(* Where the stepping loops are after n steps.  The loops of eaf_tests.cpp *)
(* start at (0, epoch) and take up to 2^30 steps; the model enters them at *)
(* chosen rata dies.  DateAt(cal, n) is the date the incrementer (the      *)
(* decrementer for n < 0) holds after |n| steps from the epoch, obtained   *)
(* by counting whole years and months with the tables of tests.hpp.        *)
(***************************************************************************)

\* the number of 29 February between 1 March 0 and 1 March Y
LeapDaysBefore(cal, Y) ==
  IF cal = "julian" THEN Y \div 4
  ELSE (Y \div 4) - (Y \div 100) + (Y \div 400)

\* the number of days from 1 March to the first day of month M, where
\* M = 13 and M = 14 are January and February of the next year
RECURSIVE DaysBeforeMonth(_, _)
DaysBeforeMonth(cal, M) ==
  IF M = 3 THEN 0
  ELSE DaysBeforeMonth(cal, M - 1)
         + last_day_of_month(cal, 1, IF M - 1 > 12 THEN M - 13 ELSE M - 1)

\* the number of days from 1 March 0 to date
DayNumber(cal, date) ==
  LET J == IF date.month <= 2 THEN 1 ELSE 0
      Y == date.year - J
      M == date.month + 12 * J
  IN  365 * Y + LeapDaysBefore(cal, Y) + DaysBeforeMonth(cal, M)
        + (date.day - 1)

\* the number of steps from the epoch to date
RataDieAt(cal, date) ==
  DayNumber(cal, date) - DayNumber(cal, calendar_epoch(cal))

DateAt(cal, n) ==
  LET k     == n + DayNumber(cal, calendar_epoch(cal))
      cycle == IF cal = "julian" THEN [days |-> 1461, years |-> 4]
               ELSE [days |-> 146097, years |-> 400]
      y_est == (k \div cycle.days) * cycle.years
                 + ((k % cycle.days) * cycle.years) \div cycle.days
      Y     == CHOOSE y \in (y_est - 2)..(y_est + 2) :
                 /\ DayNumber(cal, date32(y, 3, 1)) <= k
                 /\ k < DayNumber(cal, date32(y + 1, 3, 1))
      r     == k - DayNumber(cal, date32(Y, 3, 1))
      M     == CHOOSE m \in 3..14 :
                 /\ DaysBeforeMonth(cal, m) <= r
                 /\ m < 14 => r < DaysBeforeMonth(cal, m + 1)
      D     == r - DaysBeforeMonth(cal, M) + 1
  IN  IF M > 12 THEN date32(Y + 1, M - 12, D) ELSE date32(Y, M, D)

---------------------------------------------------------------------------
(***************************************************************************)
(* Conversions on chosen arguments: to_date(N) followed by to_rata_die of  *)
(* the date returned, or to_rata_die of a chosen date.                     *)
(***************************************************************************)

\* How far from 0, from the ends of [rata_die_min, rata_die_max] and from
\* the rata die of date_max the arguments are drawn.
ConvSpan == 3

ConvRataDies(cal) ==
  LET lo == algorithm_rata_die_min(cal)
      hi == algorithm_rata_die_max(cal)
      dm == RataDieAt(cal, algorithm_date_max(cal))
  IN  {n \in    (lo..(lo + ConvSpan)) \cup ((-ConvSpan)..ConvSpan)
           \cup ((dm - ConvSpan)..(dm + ConvSpan)) \cup ((hi - ConvSpan)..hi) :
         lo <= n /\ n <= hi}

ConvDates(cal) ==
  {calendar_epoch(cal), algorithm_date_min(cal), algorithm_date_max(cal)}

ConvInit ==
  /\ dv = DivIdle /\ st = StepIdle /\ fe = FastIdle
  /\ \E cal \in Algorithms :
       \/ \E N \in ConvRataDies(cal) :
            cv = [pc |-> "rata_die", cal |-> cal, from |-> "rata_die",
                  N |-> N, date |-> date32(0, 0, 0), back |-> 0]
       \/ \E date \in ConvDates(cal) :
            cv = [pc |-> "date", cal |-> cal, from |-> "date", N |-> 0,
                  date |-> date, back |-> 0]

\* A call of to_date(N); an overflowing signed operation may trap.
ToDate ==
  /\ cv.pc = "rata_die"
  /\ \E r \in {algorithm_to_date(cv.cal, cv.N)} :
         \/ cv' = [cv EXCEPT !.pc = "date", !.date = r.date]
         \/ r.ub /\ cv' = [cv EXCEPT !.pc = "trapped"]
  /\ UNCHANGED <<dv, st, fe>>

\* A call of to_rata_die(date); an overflowing signed operation may trap.
ToRataDie ==
  /\ cv.pc = "date"
  /\ \E r \in {algorithm_to_rata_die(cv.cal, cv.date)} :
         \/ cv' = [cv EXCEPT !.pc = "done", !.back = r.N]
         \/ r.ub /\ cv' = [cv EXCEPT !.pc = "trapped"]
  /\ UNCHANGED <<dv, st, fe>>

ConvNext == ToDate \/ ToRataDie

SpecConv == ConvInit /\ [][ConvNext]_vars

\* N is an argument of to_date within the bounds of the calendar
ConvInRange ==
  /\ cv.pc # "idle" /\ cv.from = "rata_die"
  /\ algorithm_rata_die_min(cv.cal) <= cv.N
  /\ cv.N <= algorithm_rata_die_max(cv.cal)

\* the round trip from N is over and gave N back
ConvRoundTrip == cv.pc # "trapped" /\ (cv.pc = "done" => cv.back = cv.N)

(***************************************************************************)
(* C3: plain Gregorian algorithm, T = int32_t: for every N with            *)
(* limits<T>::rata_die_min <= N <= limits<T>::rata_die_max, to_rata_die    *)
(* applied to the date returned by to_date(N) returns N.                   *)
(***************************************************************************)
C3_GregorianRoundTrip ==
  (ConvInRange /\ cv.cal = "gregorian") => ConvRoundTrip

(***************************************************************************)
(* C4: Julian algorithm, T = int32_t: for every N with                     *)
(* limits<T>::rata_die_min <= N <= limits<T>::rata_die_max, to_rata_die    *)
(* applied to the date returned by to_date(N) returns N.                   *)
(***************************************************************************)
C4_JulianRoundTrip ==
  (ConvInRange /\ cv.cal = "julian") => ConvRoundTrip

(***************************************************************************)
(* C5, as stated: optimised Gregorian algorithm with the Unix epoch        *)
(* (T = int32_t, epoch = 719468, s = 82): for every N with                 *)
(* -12699422 <= N <= 1061042401, to_rata_die_opt applied to the date       *)
(* returned by to_date_opt(N) returns N.                                   *)
(***************************************************************************)
C5_UnixRoundTripWholeRange ==
  (ConvInRange /\ cv.cal = "gregorian_unix") => ConvRoundTrip

(***************************************************************************)
(* C5, amended: the round trip returns N for every N of                    *)
(* [rata_die_min, rata_die_max] whose date to_date_opt(N) lies in          *)
(* [date_min, date_max], the domain of to_rata_die_opt.                    *)
(***************************************************************************)
C5_UnixRoundTripWithinDates ==
  (/\ ConvInRange /\ cv.cal = "gregorian_unix" /\ cv.pc = "done"
   /\ ~date_lt(cv.date, algorithm_date_min(cv.cal))
   /\ ~date_lt(algorithm_date_max(cv.cal), cv.date))
  => cv.back = cv.N

\* the round trip of the last rata die whose date is within the domain of
\* to_rata_die_opt, and of the first rata die of the range
C5_Witness ==
  /\ ConvInRange /\ cv.cal = "gregorian_unix" /\ cv.pc = "done"
  /\ cv.date = algorithm_date_max(cv.cal)
  /\ cv.back = cv.N

(***************************************************************************)
(* C9: to_date(0) is the epoch of the calendar and to_rata_die(epoch) is   *)
(* 0, the epoch being (0, 3, 1) for julian, gregorian and the optimised    *)
(* algorithm with epoch = 0, s = 0, and (1970, 1, 1) for the optimised     *)
(* algorithm with epoch = 719468, s = 82 and for neri_schneider.           *)
(***************************************************************************)
C9_EpochFixedPoint ==
  /\ (cv.pc # "idle" /\ cv.from = "rata_die" /\ cv.N = 0) =>
       /\ cv.pc # "trapped"
       /\ cv.pc \in {"date", "done"} => cv.date = calendar_epoch(cv.cal)
  /\ (cv.pc # "idle" /\ cv.from = "date"
        /\ cv.date = calendar_epoch(cv.cal)) =>
       /\ cv.pc # "trapped"
       /\ cv.pc = "done" => cv.back = 0

\* to_rata_die has been applied to the epoch of neri_schneider
C9_Witness ==
  /\ cv.pc = "done" /\ cv.from = "date" /\ cv.cal = "neri_schneider"
  /\ cv.date = date32(1970, 1, 1) /\ cv.back = 0

---------------------------------------------------------------------------
(***************************************************************************)
(* The stepping loops of tests/eaf_tests.cpp.  A loop is entered at        *)
(* (n, DateAt(cal, n)) for a chosen n and runs until its condition fails,  *)
(* an ASSERT_EQ fails, or StepSpan iterations are done.                    *)
(***************************************************************************)

\* How many iterations of a loop are followed, and how far from the end of
\* the loop the loop is entered.
StepSpan == 40

StepTests == {"to_date_forward", "to_date_backward",
              "to_rata_die_forward", "to_rata_die_backward"}

\* years whose end of February the loops are followed through
StepYears == {1900, 2000, 2023, 2024}

\* The lowest rata die the loop of to_date_backward gets to.  The plain
\* algorithms call quotient(4 * N + 3, d) with d = 1461 (julian) and
\* d = 146097 (gregorian), whose n - (d - 1) is below the minimum of int32_t
\* for N <= rata_die_min + (d - 4) / 4: the loop ends there at the latest.
BackwardFloor(cal) ==
  CASE cal = "julian"    -> calendar_rata_die_min(cal) + (1461 - 4) \div 4
    [] cal = "gregorian" -> calendar_rata_die_min(cal) + (146097 - 4) \div 4
    [] OTHER             -> calendar_rata_die_min(cal)

StepStarts(test, cal) ==
  CASE test = "to_date_forward" ->
         {0, calendar_rata_die_max(cal) - StepSpan}
           \cup {RataDieAt(cal, date32(y, 2, 15)) : y \in StepYears}
    [] test = "to_date_backward" ->
         {0, BackwardFloor(cal) + StepSpan}
           \cup {RataDieAt(cal, date32(y, 3, 15)) : y \in StepYears}
    [] test = "to_rata_die_forward" ->
         {0, RataDieAt(cal, calendar_date_max(cal)) - StepSpan}
           \cup {RataDieAt(cal, date32(y, 2, 15)) : y \in StepYears}
    [] test = "to_rata_die_backward" ->
         {0, RataDieAt(cal, calendar_date_min(cal)) + StepSpan}
           \cup {RataDieAt(cal, date32(y, 3, 15)) : y \in StepYears}

StepInit ==
  /\ dv = DivIdle /\ cv = ConvIdle /\ fe = FastIdle
  /\ \E test \in StepTests, cal \in Calendars :
       \E n \in StepStarts(test, cal) :
         st = [pc |-> "loop", test |-> test, cal |-> cal, steps |-> 0,
               n |-> n, date |-> DateAt(cal, n),
               got_date |-> DateAt(cal, n), got_n |-> n]

\* for (n = 0; n < rata_die_max; ) {
\*   tomorrow = to_date(++n); ASSERT_EQ(tomorrow, advance(date)); }
ToDateForwardStep ==
  /\ st.pc = "loop" /\ st.test = "to_date_forward"
  /\ st.steps < StepSpan
  /\ st.n < calendar_rata_die_max(st.cal)
  /\ \E n \in {st.n + 1} :
       \E tomorrow \in {calendar_to_date(st.cal, n)},
          date \in {advance(st.cal, st.date)} :
         \E next \in {[st EXCEPT !.n = n, !.date = date, !.steps = @ + 1,
                                 !.got_date = tomorrow.date]} :
           \/ st' = [next EXCEPT !.pc = IF tomorrow.date = date
                                        THEN "loop" ELSE "failed"]
           \/ tomorrow.ub /\ st' = [next EXCEPT !.pc = "trapped"]
  /\ UNCHANGED <<dv, cv, fe>>

\* for (n = 0; rata_die_min < n; ) {
\*   yesterday = to_date(--n); ASSERT_EQ(yesterday, regress(date)); }
ToDateBackwardStep ==
  /\ st.pc = "loop" /\ st.test = "to_date_backward"
  /\ st.steps < StepSpan
  /\ calendar_rata_die_min(st.cal) < st.n
  /\ \E n \in {st.n - 1} :
       \E yesterday \in {calendar_to_date(st.cal, n)},
          date \in {regress(st.cal, st.date)} :
         \E next \in {[st EXCEPT !.n = n, !.date = date, !.steps = @ + 1,
                                 !.got_date = yesterday.date]} :
           \/ st' = [next EXCEPT !.pc = IF yesterday.date = date
                                        THEN "loop" ELSE "failed"]
           \/ yesterday.ub /\ st' = [next EXCEPT !.pc = "trapped"]
  /\ UNCHANGED <<dv, cv, fe>>

\* for (date = epoch; date < date_max; ) {
\*   tomorrow = to_rata_die(advance(date)); ASSERT_EQ(tomorrow, ++n); }
ToRataDieForwardStep ==
  /\ st.pc = "loop" /\ st.test = "to_rata_die_forward"
  /\ st.steps < StepSpan
  /\ date_lt(st.date, calendar_date_max(st.cal))
  /\ \E date \in {advance(st.cal, st.date)} :
       \E tomorrow \in {calendar_to_rata_die(st.cal, date)},
          n \in {st.n + 1} :
         \E next \in {[st EXCEPT !.n = n, !.date = date, !.steps = @ + 1,
                                 !.got_n = tomorrow.N]} :
           \/ st' = [next EXCEPT !.pc = IF tomorrow.N = n
                                        THEN "loop" ELSE "failed"]
           \/ tomorrow.ub /\ st' = [next EXCEPT !.pc = "trapped"]
  /\ UNCHANGED <<dv, cv, fe>>

\* for (date = epoch; date_min < date; ) {
\*   yesterday = to_rata_die(regress(date)); ASSERT_EQ(yesterday, --n); }
ToRataDieBackwardStep ==
  /\ st.pc = "loop" /\ st.test = "to_rata_die_backward"
  /\ st.steps < StepSpan
  /\ date_lt(calendar_date_min(st.cal), st.date)
  /\ \E date \in {regress(st.cal, st.date)} :
       \E yesterday \in {calendar_to_rata_die(st.cal, date)},
          n \in {st.n - 1} :
         \E next \in {[st EXCEPT !.n = n, !.date = date, !.steps = @ + 1,
                                 !.got_n = yesterday.N]} :
           \/ st' = [next EXCEPT !.pc = IF yesterday.N = n
                                        THEN "loop" ELSE "failed"]
           \/ yesterday.ub /\ st' = [next EXCEPT !.pc = "trapped"]
  /\ UNCHANGED <<dv, cv, fe>>

\* the condition of the loop is false: the test is over
LoopExit ==
  /\ st.pc = "loop"
  /\ CASE st.test = "to_date_forward" ->
            ~(st.n < calendar_rata_die_max(st.cal))
       [] st.test = "to_date_backward" ->
            ~(calendar_rata_die_min(st.cal) < st.n)
       [] st.test = "to_rata_die_forward" ->
            ~date_lt(st.date, calendar_date_max(st.cal))
       [] st.test = "to_rata_die_backward" ->
            ~date_lt(calendar_date_min(st.cal), st.date)
  /\ st' = [st EXCEPT !.pc = "passed"]
  /\ UNCHANGED <<dv, cv, fe>>

StepNext ==
  \/ ToDateForwardStep
  \/ ToDateBackwardStep
  \/ ToRataDieForwardStep
  \/ ToRataDieBackwardStep
  \/ LoopExit

SpecStep == StepInit /\ [][StepNext]_vars

\* the loop is where n steps of the incrementer or decrementer lead
StepsCounted == st.pc # "idle" => st.date = DateAt(st.cal, st.n)

\* to_date(n) overflows nowhere and is date
ToDateIs(cal, n, date) ==
  LET is(r) == ~r.ub /\ r.date = date
  IN  is(calendar_to_date(cal, n))

\* to_rata_die(date) overflows nowhere and is n
ToRataDieIs(cal, date, n) ==
  LET is(r) == ~r.ub /\ r.N = n
  IN  is(calendar_to_rata_die(cal, date))

(***************************************************************************)
(* C6: in the loop of to_date_forward, which steps (n, date) to            *)
(* (n + 1, advance(date)) from (0, epoch), to_date(n) = date holds in      *)
(* every state with n <= rata_die_max, for each of the four calendars.     *)
(***************************************************************************)
C6_ForwardStepping ==
  (st.pc # "idle" /\ st.test = "to_date_forward"
     /\ st.n <= calendar_rata_die_max(st.cal)) =>
    /\ st.pc \in {"loop", "passed"}
    /\ ToDateIs(st.cal, st.n, st.date)

\* the loop of the plain Gregorian calendar has reached rata_die_max
C6_Witness ==
  /\ st.pc = "passed" /\ st.test = "to_date_forward"
  /\ st.cal = "gregorian" /\ st.steps = StepSpan
  /\ st.n = calendar_rata_die_max(st.cal)
  /\ st.got_date = st.date

(***************************************************************************)
(* C7: in the loop of to_date_backward, which steps (n, date) to           *)
(* (n - 1, regress(date)) from (0, epoch), to_date(n) = date holds in      *)
(* every state with n >= rata_die_min, rata_die_min included, for each of  *)
(* the four calendars.                                                     *)
(***************************************************************************)
C7_BackwardStepping ==
  (st.pc # "idle" /\ st.test = "to_date_backward"
     /\ calendar_rata_die_min(st.cal) <= st.n) =>
    /\ st.pc \in {"loop", "passed"}
    /\ ToDateIs(st.cal, st.n, st.date)

(***************************************************************************)
(* C8: in the loops of to_rata_die_forward and to_rata_die_backward, which *)
(* step the date with advance up to date_max and with regress down to      *)
(* date_min while counting the steps in n, to_rata_die(date) = n holds     *)
(* after every step, for each of the four calendars.                       *)
(***************************************************************************)
C8_RataDieCountsDays ==
  (st.pc # "idle"
     /\ st.test \in {"to_rata_die_forward", "to_rata_die_backward"}) =>
    /\ st.pc \in {"loop", "passed"}
    /\ ToRataDieIs(st.cal, st.date, st.n)

\* the backward loop of the Julian calendar has reached date_min
C8_Witness ==
  /\ st.pc = "passed" /\ st.test = "to_rata_die_backward"
  /\ st.cal = "julian" /\ st.steps = StepSpan
  /\ st.date = calendar_date_min(st.cal)
  /\ st.got_n = st.n

---------------------------------------------------------------------------
(***************************************************************************)
(* paper/fast_eaf.cpp: get_fast_eaf.  integer is boost's int128_t: a sign  *)
(* and a magnitude of 128 bits, unchecked.                                 *)
(***************************************************************************)

I128(x) == ZMake(x.neg, NModPow2(x.mag, 128))

\* eaf_t: uint64_t a, int64_t b, uint64_t d
eaf_t(a, b, d) == [a |-> a, b |-> b, d |-> d]

\* the lambda g of get_fast_eaf: g(n) = a' * n - 2^k * f(n)
g(eaf, p2_k, a_p, n) ==
  LET num     == I128(ZAdd(I128(ZMul(eaf.a, n)), eaf.b))
      adj_num == IF ~ZIsNeg(num) THEN num
                 ELSE I128(ZSub(num, WrapU(64, ZSub(eaf.d, Z(1)))))
      f_n     == ZDivT(adj_num, eaf.d)
      g_n     == I128(ZSub(I128(ZMul(a_p, n)), I128(ZMul(p2_k, f_n))))
  IN  g_n

\* the least and the greatest element of a finite set of integers
ZMin(xs) == CHOOSE x \in xs : \A y \in xs : ZLe(x, y)
ZMax(xs) == CHOOSE x \in xs : \A y \in xs : ZLe(y, x)

\* the values of the loop variable of for (n = 1; n < eaf.d; ++n), with 0
LoopRange(eaf) == {Z(n) : n \in 0..(ZToInt(eaf.d) - 1)}

\* a faulty b_p: the - 1 of the round down mode is left out
b_p_of_mutant(is_rounding_up, eaf, p2_k, a_p) ==
  IF is_rounding_up
  THEN LET min == ZMin({g(eaf, p2_k, a_p, n) : n \in LoopRange(eaf)})
       IN  I128(ZNeg(min))
  ELSE LET max == ZMax({g(eaf, p2_k, a_p, n) : n \in LoopRange(eaf)})
       IN  I128(ZSub(p2_k, max))

\* the lambda that initialises b_p
b_p_of(is_rounding_up, eaf, p2_k, a_p) ==
  IF is_rounding_up
  THEN LET min == ZMin({g(eaf, p2_k, a_p, n) : n \in LoopRange(eaf)})
       IN  I128(ZNeg(min))
  ELSE LET max == ZMax({g(eaf, p2_k, a_p, n) : n \in LoopRange(eaf)})
       IN  I128(ZSub(I128(ZSub(p2_k, Z(1))), max))

\* a faulty Q, which is 0 at h(n) = 0 in round-down mode too
Q_mutant(is_rounding_up, eaf, p2_k, a_p, epsilon, b_p, n) ==
  IF is_rounding_up
  THEN LET h == I128(ZSub(p2_k, I128(ZAdd(g(eaf, p2_k, a_p, n), b_p))))
       IN  IF ZLe(h, Z(0)) THEN [v |-> Z(0), div0 |-> FALSE]
           ELSE IF epsilon = Z(0) THEN [v |-> Z(0), div0 |-> TRUE]
           ELSE [v    |-> ZDivT(I128(ZAdd(h, I128(ZSub(epsilon, Z(1))))),
                                epsilon),
                 div0 |-> FALSE]
  ELSE LET h == I128(ZAdd(g(eaf, p2_k, a_p, n), b_p))
       IN  IF ZLe(h, Z(0)) THEN [v |-> Z(0), div0 |-> FALSE]
           ELSE IF epsilon = Z(0) THEN [v |-> Z(0), div0 |-> TRUE]
           ELSE [v    |-> I128(ZAdd(ZDivT(h, epsilon), Z(1))),
                 div0 |-> FALSE]

\* The lambda Q of get_fast_eaf.  The result is [v, div0]: div0 tells that
\* the division by epsilon is evaluated with epsilon = 0, which throws out
\* of the noexcept function.
Q(is_rounding_up, eaf, p2_k, a_p, epsilon, b_p, n) ==
  IF is_rounding_up
  THEN LET h == I128(ZSub(p2_k, I128(ZAdd(g(eaf, p2_k, a_p, n), b_p))))
       IN  IF ZLe(h, Z(0)) THEN [v |-> Z(0), div0 |-> FALSE]
           ELSE IF epsilon = Z(0) THEN [v |-> Z(0), div0 |-> TRUE]
           ELSE [v    |-> ZDivT(I128(ZAdd(h, I128(ZSub(epsilon, Z(1))))),
                                epsilon),
                 div0 |-> FALSE]
  ELSE LET h == I128(ZAdd(g(eaf, p2_k, a_p, n), b_p))
       IN  IF ZLt(h, Z(0)) THEN [v |-> Z(0), div0 |-> FALSE]
           ELSE IF epsilon = Z(0) THEN [v |-> Z(0), div0 |-> TRUE]
           ELSE [v    |-> I128(ZAdd(ZDivT(h, epsilon), Z(1))),
                 div0 |-> FALSE]

\* a faulty g_raw: 2^k is multiplied by the numerator, not by f(n)
g_raw_mutant(eaf, p2_k, a_p, n) ==
  LET num == I128(ZAdd(I128(ZMul(eaf.a, n)), eaf.b))
  IN  {ZMul(eaf.a, n), ZAdd(I128(ZMul(eaf.a, n)), eaf.b),
       ZMul(a_p, n), ZMul(p2_k, num)}

\* The exact results of the operations of g(n), each on the operands the
\* code has got: a * n, a * n + b, num - (d - 1), adj_num / d, a' * n,
\* 2^k * f(n) and a' * n - 2^k * f(n).
g_raw(eaf, p2_k, a_p, n) ==
  LET num     == I128(ZAdd(I128(ZMul(eaf.a, n)), eaf.b))
      adj_num == IF ~ZIsNeg(num) THEN num
                 ELSE I128(ZSub(num, WrapU(64, ZSub(eaf.d, Z(1)))))
      f_n     == ZDivT(adj_num, eaf.d)
  IN  {ZMul(eaf.a, n), ZAdd(I128(ZMul(eaf.a, n)), eaf.b),
       IF ~ZIsNeg(num) THEN num
       ELSE ZSub(num, WrapU(64, ZSub(eaf.d, Z(1)))),
       f_n, ZMul(a_p, n), ZMul(p2_k, f_n),
       ZSub(I128(ZMul(a_p, n)), I128(ZMul(p2_k, f_n)))}

\* the exact results of the operations of the lambda that initialises b_p
b_p_raw(is_rounding_up, eaf, p2_k, a_p) ==
  UNION {g_raw(eaf, p2_k, a_p, n) : n \in LoopRange(eaf)}
    \cup (IF is_rounding_up
          THEN {ZNeg(ZMin({g(eaf, p2_k, a_p, n) : n \in LoopRange(eaf)}))}
          ELSE {ZSub(p2_k, Z(1)),
                ZSub(I128(ZSub(p2_k, Z(1))),
                     ZMax({g(eaf, p2_k, a_p, n) : n \in LoopRange(eaf)}))})

\* the exact results of the operations of Q(n), the division left out when
\* it is not evaluated
Q_raw(is_rounding_up, eaf, p2_k, a_p, epsilon, b_p, n) ==
  LET gb == ZAdd(g(eaf, p2_k, a_p, n), b_p)
  IN  g_raw(eaf, p2_k, a_p, n) \cup {gb} \cup
      IF is_rounding_up
      THEN LET h == I128(ZSub(p2_k, I128(gb)))
           IN  {ZSub(p2_k, I128(gb))} \cup
               IF ZLe(h, Z(0)) THEN {}
               ELSE {ZSub(epsilon, Z(1)),
                     ZAdd(h, I128(ZSub(epsilon, Z(1))))}
      ELSE LET h == I128(gb)
           IN  IF ZLt(h, Z(0)) \/ epsilon = Z(0) THEN {}
               ELSE {ZDivT(h, epsilon), ZAdd(ZDivT(h, epsilon), Z(1))}

\* the exact results of the operations of P(n) for the Q(n) computed
P_raw(eaf, q, n) == {ZMul(q, eaf.d), ZAdd(I128(ZMul(q, eaf.d)), n)}

\* the lambda P of get_fast_eaf: Q(n) * d + n
P(is_rounding_up, eaf, p2_k, a_p, epsilon, b_p, n) ==
  LET q == Q(is_rounding_up, eaf, p2_k, a_p, epsilon, b_p, n)
  IN  [v |-> I128(ZAdd(I128(ZMul(q.v, eaf.d)), n)), div0 |-> q.div0]

\* What the conversion of an int128_t to int64_t gives for a value out of
\* int64_t: the nearest end of int64_t with the boost releases that
\* saturate, the low 64 bits with those that truncate.
Narrowings == {"saturate", "truncate"}

int64_of(x, narrowing) ==
  IF FitsS(64, x) THEN x
  ELSE IF narrowing = "truncate" THEN WrapS(64, x)
  ELSE IF ZIsNeg(x) THEN TMin(64) ELSE TMax(64)

\* the conversion of a non negative int128_t to uint64_t: the low 64 bits
uint64_of(x) == WrapU(64, x)

\* get_fast_eaf(rounding, k, eaf), for eaf.d > 0.  The result tells how the
\* call ends ("returned", "assert" for a failed assert, "terminate" for the
\* exception of a division by zero), the values derived on the way and,
\* when the call returns, the fast_eaf_t returned.
get_fast_eaf(rounding, k, eaf, narrowing) ==
  LET is_rounding_up == rounding = "up"
      p2_k     == I128(ZPow2(k))
      p2_k_a   == I128(ZMul(p2_k, eaf.a))
      q_p2_k_a == ZDivT(p2_k_a, eaf.d)
      r_p2_k_a == ZRemT(p2_k_a, eaf.d)
      a_p      == IF is_rounding_up THEN I128(ZAdd(q_p2_k_a, Z(1)))
                  ELSE q_p2_k_a
      epsilon  == IF is_rounding_up THEN I128(ZSub(eaf.d, r_p2_k_a))
                  ELSE r_p2_k_a
      nothing  == [a |-> Z(0), b |-> Z(0), d |-> Z(0), k |-> k, U |-> Z(0)]
      \* the asserts and the return statement
      return(a_p0, epsilon0, b_p, U) ==
        IF \/ ZLt(UMax(64), a_p0)
           \/ ZLt(TMax(64), b_p)
           \/ ZLt(UMax(64), U)
        THEN [end     |-> "assert",
              derived |-> [a_p |-> a_p0, epsilon |-> epsilon0, b_p |-> b_p,
                           U |-> U],
              fast    |-> nothing]
        ELSE [end     |-> "returned",
              derived |-> [a_p |-> a_p0, epsilon |-> epsilon0, b_p |-> b_p,
                           U |-> U],
              fast    |-> [a |-> uint64_of(a_p0),
                           b |-> int64_of(b_p, narrowing),
                           d |-> uint64_of(p2_k),
                           k |-> k,
                           U |-> uint64_of(U)]]
      \* U = min P(n) over 0 <= n < d, Ps being the P(n)
      bound(a_p0, epsilon0, b_p, Ps) ==
        IF \E p \in Ps : p.div0
        THEN [end     |-> "terminate",
              derived |-> [a_p |-> a_p0, epsilon |-> epsilon0, b_p |-> b_p,
                           U |-> Z(0)],
              fast    |-> nothing]
        ELSE return(a_p0, epsilon0, b_p, ZMin({p.v : p \in Ps}))
      offset(a_p0, epsilon0, b_p) ==
        bound(a_p0, epsilon0, b_p,
              {P(is_rounding_up, eaf, p2_k, a_p0, epsilon0, b_p, n) :
                 n \in LoopRange(eaf)})
      approximation(a_p0, epsilon0) ==
        offset(a_p0, epsilon0, b_p_of(is_rounding_up, eaf, p2_k, a_p0))
  IN  approximation(a_p, epsilon)

---------------------------------------------------------------------------
(***************************************************************************)
(* Calls of get_fast_eaf on chosen arguments, and the comparison of the    *)
(* EAF with the fast EAF returned at chosen n.                             *)
(***************************************************************************)

\* The arguments drawn: k in 1..FastMaxK and the two largest k, a in
\* 0..FastMaxA, b in -FastMaxB..FastMaxB, d in 1..FastMaxD; the EAF and
\* the fast EAF are compared at n in 0..FastMaxN and at U - 1 and U.
FastMaxK == 3
FastMaxA == 2
FastMaxB == 4
FastMaxD == 3
FastMaxN == 3

FastKs == (1..FastMaxK) \cup {63, 64}

\* the EAFs of the month and day calculations of the calendar algorithms
FastExamples ==
  {[rounding |-> "down", k |-> 16, eaf |-> eaf_t(Z(5), Z(461), Z(153))],
   [rounding |-> "down", k |-> 5, eaf |-> eaf_t(Z(153), Z(-457), Z(5))]}

FastArgs ==
  {[rounding |-> r, k |-> k, eaf |-> eaf_t(Z(a), Z(b), Z(d))] :
     r \in {"up", "down"}, k \in FastKs, a \in 0..FastMaxA,
     b \in (-FastMaxB)..FastMaxB, d \in 1..FastMaxD}
  \cup FastExamples

\* floor(x / y) for y > 0
Floor(x, y) ==
  IF ZIsNeg(ZRemT(x, y)) THEN ZSub(ZDivT(x, y), Z(1)) ELSE ZDivT(x, y)

\* floor((a * n + b) / d)
EafAt(eaf, n) == Floor(ZAdd(ZMul(eaf.a, n), eaf.b), eaf.d)

\* floor((a' * n + b') / 2^k)
FastEafAt(fast, n) == Floor(ZAdd(ZMul(fast.a, n), fast.b), ZPow2(fast.k))

FastProbes(U) ==
  {n \in {Z(i) : i \in 0..FastMaxN} \cup {ZSub(U, Z(1)), U} : ~ZIsNeg(n)}

FastText(x) == [f \in DOMAIN x |-> ZStr(x[f])]

FastInit ==
  /\ dv = DivIdle /\ cv = ConvIdle /\ st = StepIdle
  /\ \E args \in FastArgs :
       fe = [pc |-> "args", rounding |-> args.rounding, k |-> args.k,
             eaf |-> args.eaf, eaf_txt |-> FastText(args.eaf)]

\* A call of get_fast_eaf.
CallGetFastEaf ==
  /\ fe.pc = "args"
  /\ \E narrowing \in Narrowings :
       \E res \in {get_fast_eaf(fe.rounding, fe.k, fe.eaf, narrowing)} :
           fe' = [pc |-> res.end, rounding |-> fe.rounding, k |-> fe.k,
                  eaf |-> fe.eaf, eaf_txt |-> fe.eaf_txt,
                  derived |-> res.derived,
                  derived_txt |-> FastText(res.derived),
                  fast |-> res.fast,
                  fast_txt |-> [a |-> ZStr(res.fast.a), b |-> ZStr(res.fast.b),
                                U |-> ZStr(res.fast.U)]]
  /\ UNCHANGED <<dv, cv, st>>

\* The EAF and the fast EAF returned are evaluated at n.
Evaluate ==
  /\ fe.pc = "returned"
  /\ \E n \in FastProbes(fe.fast.U) :
     \E exact \in {EafAt(fe.eaf, n)}, approx \in {FastEafAt(fe.fast, n)} :
       fe' = [pc |-> "evaluated", rounding |-> fe.rounding, k |-> fe.k,
              eaf |-> fe.eaf, eaf_txt |-> fe.eaf_txt,
              derived |-> fe.derived, derived_txt |-> fe.derived_txt,
              fast |-> fe.fast, fast_txt |-> fe.fast_txt,
              n |-> n, exact |-> exact, approx |-> approx,
              at_txt |-> [n |-> ZStr(n), exact |-> ZStr(exact),
                          approx |-> ZStr(approx)]]
  /\ UNCHANGED <<dv, cv, st>>

FastNext == CallGetFastEaf \/ Evaluate

SpecFast == FastInit /\ [][FastNext]_vars

(***************************************************************************)
(* C1: for every rounding mode, every k in [1, 64] and every EAF           *)
(* (a, b, d) with d > 0 for which get_fast_eaf returns, the returned       *)
(* (a', b', k, U) satisfy floor((a * n + b) / d) =                         *)
(* floor((a' * n + b') / 2^k) for every n with 0 <= n < U.                 *)
(***************************************************************************)
C1_FastEafAgreesBelowU ==
  (fe.pc = "evaluated" /\ ZLt(fe.n, fe.fast.U)) => fe.exact = fe.approx

(***************************************************************************)
(* C2: the bound U returned by get_fast_eaf is tight: for every rounding   *)
(* mode, every k in [1, 64] and every EAF (a, b, d) with d > 0 for which   *)
(* get_fast_eaf returns, floor((a * U + b) / d) differs from               *)
(* floor((a' * U + b') / 2^k).                                             *)
(***************************************************************************)
C2_FastEafDiffersAtU ==
  (fe.pc = "evaluated" /\ fe.n = fe.fast.U) => fe.exact # fe.approx

---------------------------------------------------------------------------
(***************************************************************************)
(* to_date of the plain algorithms on the documented domain, for           *)
(* T = int32_t and T = int64_t: julian::to_date(N) and                     *)
(* gregorian::to_date(N) for N near the ends of                            *)
(* [limits<T>::rata_die_min, limits<T>::rata_die_max] and near 0.          *)
(***************************************************************************)

\* How far from 0 and from the ends of the domain the rata dies are drawn.
DomainSpan == 12

DomainWidths == {32, 64}

DomainRataDies(w) ==
  {ZAdd(limits_rata_die_min(w), Z(i)) : i \in 0..DomainSpan}
    \cup {Z(i) : i \in (-DomainSpan)..DomainSpan}
    \cup {ZSub(limits_rata_die_max(w), Z(i)) : i \in 0..DomainSpan}

\* The date N days from 1 March 0: the calendar repeats every 1461 days
\* (4 years, julian) or 146097 days (400 years, gregorian).
DomainDate(cal, N) ==
  LET cycle == IF cal = "julian" THEN [days |-> 1461, years |-> 4]
               ELSE [days |-> 146097, years |-> 400]
      q     == Floor(N, Z(cycle.days))
      r     == ZToInt(ZSub(N, ZMul(q, Z(cycle.days))))
      base  == DateAt(cal, r)
  IN  Date(ZAdd(Z(base.year), ZMul(Z(cycle.years), q)),
           Z(base.month), Z(base.day))

DomainInit ==
  /\ dv = DivIdle /\ st = StepIdle /\ fe = FastIdle
  /\ \E w \in DomainWidths, cal \in {"julian", "gregorian"} :
       \E N \in DomainRataDies(w) :
         cv = [pc |-> "domain", w |-> w, cal |-> cal, N |-> N,
               N_txt |-> ZStr(N)]

\* julian::to_date<T>(N); an overflowing signed operation may trap.
JulianToDate ==
  /\ cv.pc = "domain" /\ cv.cal = "julian"
  /\ \E r \in {julian_to_date(cv.w, V(cv.N))} :
       \/ cv' = [pc |-> "converted", w |-> cv.w, cal |-> cv.cal,
                 N |-> cv.N, N_txt |-> cv.N_txt, date |-> r.date,
                 year_txt |-> ZStr(r.date.year), ub |-> r.ub]
       \/ r.ub /\ cv' = [pc |-> "trapped", w |-> cv.w, cal |-> cv.cal,
                         N |-> cv.N, N_txt |-> cv.N_txt]
  /\ UNCHANGED <<dv, st, fe>>

\* gregorian::to_date<T>(N); an overflowing signed operation may trap.
GregorianToDate ==
  /\ cv.pc = "domain" /\ cv.cal = "gregorian"
  /\ \E r \in {gregorian_to_date(cv.w, V(cv.N))} :
       \/ cv' = [pc |-> "converted", w |-> cv.w, cal |-> cv.cal,
                 N |-> cv.N, N_txt |-> cv.N_txt, date |-> r.date,
                 year_txt |-> ZStr(r.date.year), ub |-> r.ub]
       \/ r.ub /\ cv' = [pc |-> "trapped", w |-> cv.w, cal |-> cv.cal,
                         N |-> cv.N, N_txt |-> cv.N_txt]
  /\ UNCHANGED <<dv, st, fe>>

DomainNext == JulianToDate \/ GregorianToDate

SpecDomain == DomainInit /\ [][DomainNext]_vars

(***************************************************************************)
(* C11: for T in {int32_t, int64_t} and every N with                       *)
(* limits<T>::rata_die_min <= N <= limits<T>::rata_die_max, no signed      *)
(* intermediate value of julian::to_date(N) or gregorian::to_date(N)       *)
(* (N_1 = 4 * N + 3, n - (d - 1) inside quotient, n - d * quotient(n, d)   *)
(* inside remainder) leaves the range of T, and the result is the correct  *)
(* date.                                                                   *)
(***************************************************************************)
C11_NoOverflowInToDateDomain ==
  cv.pc \in {"converted", "trapped"} =>
    /\ cv.pc = "converted"
    /\ ~cv.ub
    /\ cv.date = DomainDate(cv.cal, cv.N)

---------------------------------------------------------------------------
(***************************************************************************)
(* The EAFs of the month and day calculations: get_fast_eaf on the         *)
(* arguments of FastExamples, the result compared with the EAF at every n  *)
(* up to the bound U returned and a little beyond.                         *)
(***************************************************************************)

\* How far beyond U the two are compared.
ExampleBeyond == 2

ExampleInit ==
  /\ dv = DivIdle /\ cv = ConvIdle /\ st = StepIdle
  /\ \E args \in FastExamples :
       fe = [pc |-> "args", rounding |-> args.rounding, k |-> args.k,
             eaf |-> args.eaf, eaf_txt |-> FastText(args.eaf)]

\* The EAF and the fast EAF returned are evaluated at n.
EvaluateExample ==
  /\ fe.pc = "returned"
  /\ \E i \in 0..(ZToInt(fe.fast.U) + ExampleBeyond) :
     \E n \in {Z(i)} :
     \E exact \in {EafAt(fe.eaf, n)}, approx \in {FastEafAt(fe.fast, n)} :
       fe' = [pc |-> "evaluated", rounding |-> fe.rounding, k |-> fe.k,
              eaf |-> fe.eaf, eaf_txt |-> fe.eaf_txt,
              derived |-> fe.derived, derived_txt |-> fe.derived_txt,
              fast |-> fe.fast, fast_txt |-> fe.fast_txt,
              n |-> n, exact |-> exact, approx |-> approx,
              at_txt |-> [n |-> ZStr(n), exact |-> ZStr(exact),
                          approx |-> ZStr(approx)]]
  /\ UNCHANGED <<dv, cv, st>>

ExampleNext == CallGetFastEaf \/ EvaluateExample

SpecExample == ExampleInit /\ [][ExampleNext]_vars

\* the call is get_fast_eaf(rounding_t::down, 16, { 5, 461, 153 })
MonthExample ==
  /\ fe.pc # "idle" /\ fe.rounding = "down" /\ fe.k = 16
  /\ fe.eaf = eaf_t(Z(5), Z(461), Z(153))

(***************************************************************************)
(* C12: get_fast_eaf with round down, k = 16 and the EAF (5, 461, 153)     *)
(* returns a' = 2141, b' = 197913, the divisor 65536 and U = 734, and      *)
(* floor((2141 * N_Y + 197913) / 65536) = floor((5 * N_Y + 461) / 153) for *)
(* every N_Y in [0, 734).                                                  *)
(***************************************************************************)
C12_MonthExample ==
  (MonthExample /\ fe.pc # "args") =>
    /\ fe.pc \in {"returned", "evaluated"}
    /\ fe.fast.a = Z(2141) /\ fe.fast.b = Z(197913)
    /\ fe.fast.d = Z(65536) /\ fe.fast.U = Z(734)
    /\ (fe.pc = "evaluated" /\ ZLt(fe.n, Z(734))) => fe.exact = fe.approx

\* the two have been compared at the last N_Y below U, where both give 26
C12_Witness ==
  /\ MonthExample /\ fe.pc = "evaluated"
  /\ fe.n = Z(733) /\ fe.exact = Z(26) /\ fe.approx = Z(26)

(***************************************************************************)
(* C13: whenever the derived a' does not fit uint64_t, or the derived b'   *)
(* does not fit int64_t (above the maximum or below the minimum), or the   *)
(* derived U does not fit uint64_t, get_fast_eaf fails an assertion:       *)
(* whenever get_fast_eaf returns, the returned a', b' and U are the        *)
(* derived values.  Checked on the calls of SpecFast.                      *)
(***************************************************************************)
C13_ReturnsDerivedValues ==
  fe.pc \in {"returned", "evaluated"} =>
    /\ fe.fast.a = fe.derived.a_p
    /\ fe.fast.b = fe.derived.b_p
    /\ fe.fast.U = fe.derived.U

\* ------------------------------------------------------------------------
\* The algorithms of other libraries that the algorithm tests compare with
\* (src/algorithms and src/benchmark): each takes and returns values of the
\* program, and reports in ub whether a signed operation overflowed.  A
\* long expression is evaluated in parts (name_part1, ...), in the order of
\* the source.
\* ------------------------------------------------------------------------

\* x >> k on a signed operand: the arithmetic shift.
ShiftRight(x, k) == [v |-> Floor(x.v, ZPow2(k)), ub |-> x.ub]

\* x & (2^bits - 1) on a two's complement operand.
BitAnd(x, bits) == [v |-> ZModPow2(x.v, bits), ub |-> x.ub]

\* baum::to_date
baum_to_date(n) ==
  Val([z       \in {SAdd(32, SAdd(32, n, I(306)), I(719163))} |->
  Val([h       \in {SSub(32, SMul(32, I(100), z), I(25))} |->
  Val([a       \in {Div(h, I(3652425))} |->
  Val([b       \in {SSub(32, a, Div(a, I(4)))} |->
  Val([y_      \in {Div(SAdd(32, SMul(32, I(100), b), h), I(36525))} |->
  Val([c       \in {SSub(32, SSub(32, SAdd(32, b, z), SMul(32, I(365), y_)),
          Div(y_, I(4)))} |->
  Val([m_      \in {Div(SAdd(32, SMul(32, I(535), c), I(48950)),
          I(16384))} |->
  Val([d       \in {SSub(32, c, Div(SSub(32, SMul(32, I(979), m_), I(2918)),
          I(32)))} |->
  Val([j       \in {(IF ZLt(Z(12), m_.v) THEN I(1) ELSE I(0))} |->
  Val([y       \in {SAdd(32, y_, j)} |->
  Val([m       \in {(IF j.v # Z(0) THEN SSub(32, m_, I(12)) ELSE m_)} |->
  Val([year    \in {y} |->
  Val([month   \in {ToU(32, m)} |->
  Val([day     \in {ToU(32, d)} |->
  [date |-> Date(year.v, month.v, day.v),
   ub   |-> n.ub \/ z.ub \/ h.ub \/ a.ub \/ b.ub \/ y_.ub \/ c.ub
           \/ m_.ub \/ d.ub \/ j.ub \/ y.ub \/ m.ub \/ year.ub
           \/ month.ub \/ day.ub] ]) ]) ]) ]) ]) ]) ]) ]) ]) ]) ]) ]) ]) ])

\* baum::to_rata_die
baum_to_rata_die(year, month, day) ==
  Val([j   \in {(IF ZLt(month.v, Z(3)) THEN I(1) ELSE I(0))} |->
  Val([z   \in {SSub(32, year, j)} |->
  Val([m   \in {ToS(32, (IF j.v # Z(0) THEN UAdd(32, month,
          I(12)) ELSE month))} |->
  Val([f   \in {Div(SSub(32, SMul(32, I(979), m), I(2918)), I(32))} |->
  Val([n_part1 \in {USub(32, UAdd(32, UAdd(32, UAdd(32, day, ToU(32, f)),
          ToU(32, SMul(32, I(365), z))), ToU(32, Div(z, I(4)))), ToU(32,
          Div(z, I(100))))} |->
  Val([n   \in {ToS(32, USub(32, UAdd(32, n_part1, ToU(32, Div(z, I(400)))),
          I(306)))} |->
  Val([N   \in {SSub(32, n, I(719163))} |->
  [N  |-> N.v,
   ub |-> year.ub \/ month.ub \/ day.ub \/ j.ub \/ z.ub \/ m.ub \/ f.ub
           \/ n.ub \/ N.ub] ]) ]) ]) ]) ]) ]) ])

\* boost::to_date
boost_to_date(dayNumber) ==
  Val([a       \in {ToU(32, SAdd(32, SAdd(32, dayNumber, I(32044)),
          I(2440588)))} |->
  Val([b       \in {Div(UAdd(32, UMul(32, I(4), a), I(3)), ToU(32,
          I(146097)))} |->
  Val([c       \in {USub(32, a, Div(UMul(32, ToU(32, I(146097)), b),
          I(4)))} |->
  Val([d       \in {Div(UAdd(32, UMul(32, I(4), c), I(3)), I(1461))} |->
  Val([e       \in {USub(32, c, Div(UMul(32, I(1461), d), I(4)))} |->
  Val([m       \in {Div(UAdd(32, UMul(32, I(5), e), I(2)), I(153))} |->
  Val([day     \in {UAdd(32, USub(32, e, Div(UAdd(32, UMul(32, I(153), m),
          I(2)), I(5))), I(1))} |->
  Val([month   \in {USub(32, UAdd(32, m, I(3)), UMul(32, I(12), Div(m,
          I(10))))} |->
  Val([year    \in {ToS(32, UAdd(32, USub(32, UAdd(32, UMul(32, I(100), b),
          d), I(4800)), Div(m, I(10))))} |->
  [date |-> Date(year.v, month.v, day.v),
   ub   |-> dayNumber.ub \/ a.ub \/ b.ub \/ c.ub \/ d.ub \/ e.ub
           \/ m.ub \/ day.ub \/ month.ub
           \/ year.ub] ]) ]) ]) ]) ]) ]) ]) ]) ])

\* boost::to_rata_die
boost_to_rata_die(year, month, day) ==
  Val([a   \in {ToU(16, Div(USub(32, I(14), month), I(12)))} |->
  Val([y   \in {ToU(16, SSub(32, SAdd(32, year, I(4800)), a))} |->
  Val([m   \in {ToU(16, USub(32, UAdd(32, month, ToU(32, SMul(32, I(12),
          a))), I(3)))} |->
  Val([d_part1 \in {UAdd(32, day, ToU(32, Div(SAdd(32, SMul(32, I(153), m),
          I(2)), I(5))))} |->
  Val([d_part2 \in {USub(32, UAdd(32, UAdd(32, d_part1, ToU(32, SMul(32,
          I(365), y))), ToU(32, Div(y, I(4)))), ToU(32, Div(y, I(100))))} |->
  Val([d   \in {USub(32, UAdd(32, d_part2, ToU(32, Div(y, I(400)))),
          I(32045))} |->
  Val([N   \in {ToS(32, USub(64, d, ToU(64, I(2440588))))} |->
  [N  |-> N.v,
   ub |-> year.ub \/ month.ub \/ day.ub \/ a.ub \/ y.ub \/ m.ub \/ d.ub
           \/ N.ub] ]) ]) ]) ]) ]) ]) ])

\* fliegel_flandern::to_date
fliegel_flandern_to_date(JD) ==
  Val([L       \in {SAdd(32, SAdd(32, JD, I(68569)), I(2440588))} |->
  Val([N       \in {Div(SMul(32, I(4), L), I(146097))} |->
  Val([L_1     \in {SSub(32, L, Div(SAdd(32, SMul(32, I(146097), N), I(3)),
          I(4)))} |->
  Val([I_      \in {Div(SMul(32, I(4000), SAdd(32, L_1, I(1))),
          I(1461001))} |->
  Val([L_2     \in {SAdd(32, SSub(32, L_1, Div(SMul(32, I(1461), I_), I(4))),
          I(31))} |->
  Val([J       \in {Div(SMul(32, I(80), L_2), I(2447))} |->
  Val([K       \in {SSub(32, L_2, Div(SMul(32, I(2447), J), I(80)))} |->
  Val([L_3     \in {Div(J, I(11))} |->
  Val([J_1     \in {SSub(32, SAdd(32, J, I(2)), SMul(32, I(12), L_3))} |->
  Val([I_1     \in {SAdd(32, SAdd(32, SMul(32, I(100), SSub(32, N, I(49))),
          I_), L_3)} |->
  Val([year    \in {I_1} |->
  Val([month   \in {ToU(32, J_1)} |->
  Val([day     \in {ToU(32, K)} |->
  [date |-> Date(year.v, month.v, day.v),
   ub   |-> JD.ub \/ L.ub \/ N.ub \/ L_1.ub \/ I_.ub \/ L_2.ub \/ J.ub
           \/ K.ub \/ L_3.ub \/ J_1.ub \/ I_1.ub \/ year.ub \/ month.ub
           \/ day.ub] ]) ]) ]) ]) ]) ]) ]) ]) ]) ]) ]) ]) ])

\* fliegel_flandern::to_rata_die
fliegel_flandern_to_rata_die(y, m, d) ==
  Val([I_   \in {y} |->
  Val([J    \in {ToS(32, m)} |->
  Val([K    \in {ToS(32, d)} |->
  Val([JD_part1 \in {Div(SMul(32, I(1461), SAdd(32, SAdd(32, I_, I(4800)),
          Div(SSub(32, J, I(14)), I(12)))), I(4))} |->
  Val([JD_part2 \in {SMul(32, I(367), SSub(32, SSub(32, J, I(2)), SMul(32,
          Div(SSub(32, J, I(14)), I(12)), I(12))))} |->
  Val([JD_part3 \in {SMul(32, I(3), Div(SAdd(32, SAdd(32, I_, I(4900)),
          Div(SSub(32, J, I(14)), I(12))), I(100)))} |->
  Val([JD   \in {SSub(32, SAdd(32, SAdd(32, SSub(32, K, I(32075)), JD_part1),
          Div(JD_part2, I(12))), Div(JD_part3, I(4)))} |->
  Val([N    \in {SSub(32, JD, I(2440588))} |->
  [N  |-> N.v,
   ub |-> y.ub \/ m.ub \/ d.ub \/ I_.ub \/ J.ub \/ K.ub \/ JD.ub
           \/ N.ub] ]) ]) ]) ]) ]) ]) ]) ])

\* hatcher::to_date
hatcher_to_date(n) ==
  Val([J       \in {SAdd(32, n, I(2440588))} |->
  Val([g_part1 \in {SAdd(32, SMul(32, I(3), Div(SSub(32, SMul(32, I(4), J),
          I(17918)), I(146097))), I(2))} |->
  Val([g_      \in {SSub(32, Div(g_part1, I(4)), I(37))} |->
  Val([N       \in {SAdd(32, J, g_)} |->
  Val([A       \in {SSub(32, Div(SMul(32, I(4), N), I(1461)), I(4712))} |->
  Val([dp      \in {Div(Rem(SSub(32, SMul(32, I(4), N), I(237)), I(1461)),
          I(4))} |->
  Val([M_part1 \in {Rem(SAdd(32, Div(SAdd(32, SMul(32, I(10), dp), I(5)),
          I(306)), I(2)), I(12))} |->
  Val([M       \in {SAdd(32, M_part1, I(1))} |->
  Val([D       \in {SAdd(32, Div(Rem(SAdd(32, SMul(32, I(10), dp), I(5)),
          I(306)), I(10)), I(1))} |->
  Val([year    \in {A} |->
  Val([month   \in {ToU(32, M)} |->
  Val([day     \in {ToU(32, D)} |->
  [date |-> Date(year.v, month.v, day.v),
   ub   |-> n.ub \/ J.ub \/ g_.ub \/ N.ub \/ A.ub \/ dp.ub \/ M.ub
           \/ D.ub \/ year.ub \/ month.ub
           \/ day.ub] ]) ]) ]) ]) ]) ]) ]) ]) ]) ]) ]) ])

\* hatcher::to_rata_die
hatcher_to_rata_die(A, M, D) ==
  Val([j    \in {(IF ZLt(M.v, Z(3)) THEN I(1) ELSE I(0))} |->
  Val([Ap   \in {(IF j.v # Z(0) THEN SSub(32, A, I(1)) ELSE A)} |->
  Val([Mp   \in {ToS(32, (IF j.v # Z(0) THEN UAdd(32, M, I(9)) ELSE USub(32,
          M, I(3))))} |->
  Val([y    \in {Div(SMul(32, I(1461), SAdd(32, Ap, I(4712))), I(4))} |->
  Val([d    \in {Div(SAdd(32, SMul(32, I(306), Mp), I(5)), I(10))} |->
  Val([N    \in {SAdd(32, SAdd(32, SAdd(32, y, d), ToS(32, D)), I(59))} |->
  Val([g_   \in {SSub(32, Div(SMul(32, I(3), SAdd(32, Div(Ap, I(100)),
          I(49))), I(4)), I(38))} |->
  Val([J    \in {SSub(32, N, g_)} |->
  Val([n    \in {SSub(32, J, I(2440588))} |->
  [N  |-> n.v,
   ub |-> A.ub \/ M.ub \/ D.ub \/ j.ub \/ Ap.ub \/ Mp.ub \/ y.ub
           \/ d.ub \/ N.ub \/ g_.ub \/ J.ub
           \/ n.ub] ]) ]) ]) ]) ]) ]) ]) ]) ])

\* libcxx::to_date
libcxx_to_date(d) ==
  Val([z       \in {SAdd(32, d, I(719468))} |->
  Val([era     \in {Div((IF ZLe(Z(0), z.v) THEN z ELSE SSub(32, z,
          I(146096))), I(146097))} |->
  Val([doe     \in {ToU(32, SSub(32, z, SMul(32, era, I(146097))))} |->
  Val([yoe     \in {Div(USub(32, UAdd(32, USub(32, doe, Div(doe, I(1460))),
          Div(doe, ToU(32, I(36524)))), Div(doe, ToU(32, I(146096)))),
          I(365))} |->
  Val([yr      \in {SAdd(32, ToS(32, yoe), SMul(32, era, I(400)))} |->
  Val([doy     \in {USub(32, doe, USub(32, UAdd(32, UMul(32, I(365), yoe),
          Div(yoe, I(4))), Div(yoe, I(100))))} |->
  Val([mp      \in {Div(UAdd(32, UMul(32, I(5), doy), I(2)), I(153))} |->
  Val([dy      \in {UAdd(32, USub(32, doy, Div(UAdd(32, UMul(32, I(153), mp),
          I(2)), I(5))), I(1))} |->
  Val([mth     \in {UAdd(32, mp, ToU(32, (IF ZLt(mp.v,
          Z(10)) THEN I(3) ELSE I(-9))))} |->
  Val([year    \in {SAdd(32, yr, (IF ZLe(mth.v,
          Z(2)) THEN I(1) ELSE I(0)))} |->
  Val([month   \in {mth} |->
  Val([day     \in {dy} |->
  [date |-> Date(year.v, month.v, day.v),
   ub   |-> d.ub \/ z.ub \/ era.ub \/ doe.ub \/ yoe.ub \/ yr.ub
           \/ doy.ub \/ mp.ub \/ dy.ub \/ mth.ub \/ year.ub \/ month.ub
           \/ day.ub] ]) ]) ]) ]) ]) ]) ]) ]) ]) ]) ]) ])

\* libcxx::to_rata_die
libcxx_to_rata_die(year, month, day) ==
  Val([yr    \in {SSub(32, year, (IF ZLe(month.v,
          Z(2)) THEN I(1) ELSE I(0)))} |->
  Val([mth   \in {month} |->
  Val([dy    \in {day} |->
  Val([era   \in {Div((IF ZLe(Z(0), yr.v) THEN yr ELSE SSub(32, yr, I(399))),
          I(400))} |->
  Val([yoe   \in {ToU(32, SSub(32, yr, SMul(32, era, I(400))))} |->
  Val([doy_part1 \in {UMul(32, I(153), UAdd(32, mth, ToU(32, (IF ZLt(Z(2),
          mth.v) THEN I(-3) ELSE I(9)))))} |->
  Val([doy   \in {USub(32, UAdd(32, Div(UAdd(32, doy_part1, I(2)), I(5)),
          dy), I(1))} |->
  Val([doe   \in {UAdd(32, USub(32, UAdd(32, UMul(32, yoe, I(365)), Div(yoe,
          I(4))), Div(yoe, I(100))), doy)} |->
  Val([N     \in {SSub(32, SAdd(32, SMul(32, era, I(146097)), ToS(32, doe)),
          I(719468))} |->
  [N  |-> N.v,
   ub |-> year.ub \/ month.ub \/ day.ub \/ yr.ub \/ mth.ub \/ dy.ub
           \/ era.ub \/ yoe.ub \/ doy.ub \/ doe.ub
           \/ N.ub] ]) ]) ]) ]) ]) ]) ]) ]) ])

\* openjdk::to_date
openjdk_to_date(epochDay) ==
  Val([zeroDay        \in {SAdd(32, epochDay, I(719528))} |->
  Val([zeroDay_1      \in {SSub(64, zeroDay, I(60))} |->
  Val([adjustCycles   \in {(IF ZLt(zeroDay_1.v, Z(0)) THEN SSub(64,
          Div(SAdd(64, zeroDay_1, I(1)), I(146097)), I(1)) ELSE I(0))} |->
  Val([adjust         \in {(IF ZLt(zeroDay_1.v, Z(0)) THEN SMul(64,
          adjustCycles, I(400)) ELSE I(0))} |->
  Val([zeroDay_2      \in {(IF ZLt(zeroDay_1.v, Z(0)) THEN SAdd(64,
          zeroDay_1, SMul(64, SSub(64, I(0), adjustCycles),
          I(146097))) ELSE zeroDay_1)} |->
  Val([yearEst        \in {Div(SAdd(64, SMul(64, I(400), zeroDay_2), I(591)),
          I(146097))} |->
  Val([doyEst         \in {SSub(64, zeroDay_2, SAdd(64, SSub(64, SAdd(64,
          SMul(64, I(365), yearEst), Div(yearEst, I(4))), Div(yearEst,
          I(100))), Div(yearEst, I(400))))} |->
  Val([yearEst_1      \in {(IF ZLt(doyEst.v, Z(0)) THEN SSub(64, yearEst,
          I(1)) ELSE yearEst)} |->
  Val([doyEst_1       \in {(IF ZLt(doyEst.v, Z(0)) THEN SSub(64, zeroDay_2,
          SAdd(64, SSub(64, SAdd(64, SMul(64, I(365), yearEst_1),
          Div(yearEst_1, I(4))), Div(yearEst_1, I(100))), Div(yearEst_1,
          I(400)))) ELSE doyEst)} |->
  Val([yearEst_2      \in {SAdd(64, yearEst_1, adjust)} |->
  Val([marchDoy0      \in {ToS(32, doyEst_1)} |->
  Val([marchMonth0    \in {Div(SAdd(32, SMul(32, marchDoy0, I(5)), I(2)),
          I(153))} |->
  Val([month          \in {SAdd(32, Rem(SAdd(32, marchMonth0, I(2)), I(12)),
          I(1))} |->
  Val([dom            \in {SAdd(32, SSub(32, marchDoy0, Div(SAdd(32, SMul(32,
          marchMonth0, I(306)), I(5)), I(10))), I(1))} |->
  Val([yearEst_3      \in {SAdd(64, yearEst_2, Div(marchMonth0, I(10)))} |->
  Val([year           \in {ToS(32, yearEst_3)} |->
  Val([month_1        \in {ToU(32, month)} |->
  Val([day            \in {ToU(32, dom)} |->
  [date |-> Date(year.v, month_1.v, day.v),
   ub   |-> epochDay.ub \/ zeroDay.ub \/ zeroDay_1.ub
           \/ adjustCycles.ub \/ adjust.ub \/ zeroDay_2.ub
           \/ yearEst.ub \/ doyEst.ub \/ yearEst_1.ub \/ doyEst_1.ub
           \/ yearEst_2.ub \/ marchDoy0.ub \/ marchMonth0.ub
           \/ month.ub \/ dom.ub \/ yearEst_3.ub \/ year.ub
           \/ month_1.ub
           \/ day.ub] ]) ]) ]) ]) ]) ]) ]) ]) ]) ]) ]) ]) ]) ]) ]) ]) ]) ])

\* openjdk::to_rata_die (isLeapYear inlined)
openjdk_to_rata_die(year, month, day) ==
  Val([y       \in {year} |->
  Val([m       \in {month} |->
  Val([total   \in {I(0)} |->
  Val([total_1 \in {SAdd(64, total, SMul(64, I(365), y))} |->
  Val([total_2 \in {(IF ZLe(Z(0), y.v) THEN SAdd(64, total_1, SAdd(64,
          SSub(64, Div(SAdd(64, y, I(3)), I(4)), Div(SAdd(64, y, I(99)),
          I(100))), Div(SAdd(64, y, I(399)), I(400)))) ELSE SSub(64, total_1,
          SAdd(64, SSub(64, Div(y, I(-4)), Div(y, I(-100))), Div(y,
          I(-400)))))} |->
  Val([total_3 \in {SAdd(64, total_2, Div(SSub(64, SMul(64, I(367), m),
          I(362)), I(12)))} |->
  Val([total_4 \in {SAdd(64, total_3, USub(32, day, I(1)))} |->
  Val([total_5 \in {(IF ZLt(Z(2), m.v) THEN SSub(64, total_4,
          I(1)) ELSE total_4)} |->
  Val([total_6 \in {(IF (ZLt(Z(2), m.v) /\ ~(BitAnd(y, 2).v = Z(0) /\ (Rem(y,
          I(100)).v # Z(0) \/ Rem(y, I(400)).v = Z(0)))) THEN SSub(64,
          total_5, I(1)) ELSE total_5)} |->
  Val([N       \in {ToS(32, SSub(64, total_6, I(719528)))} |->
  [N  |-> N.v,
   ub |-> year.ub \/ month.ub \/ day.ub \/ y.ub \/ m.ub \/ total.ub
           \/ total_1.ub \/ total_2.ub \/ total_3.ub \/ total_4.ub
           \/ total_5.ub \/ total_6.ub \/ N.ub] ]) ]) ]) ]) ]) ]) ]) ]) ]) ])

\* reingold_dershowitz::to_rata_die
reingold_dershowitz_to_rata_die(y, m, d) ==
  Val([year    \in {y} |->
  Val([month   \in {ToS(32, m)} |->
  Val([day     \in {ToS(32, d)} |->
  Val([mp      \in {Rem(SAdd(32, month, I(9)), I(12))} |->
  Val([yp      \in {SSub(32, year, Div(mp, I(10)))} |->
  Val([a0      \in {Div(yp, I(400))} |->
  Val([a1      \in {Rem(Div(yp, I(100)), I(4))} |->
  Val([a2      \in {Rem(Div(yp, I(4)), I(25))} |->
  Val([a3      \in {Rem(Div(yp, I(1)), I(4))} |->
  Val([n_part1 \in {SAdd(32, SAdd(32, SAdd(32, SSub(32, SSub(32, I(1), I(1)),
          I(306)), SMul(32, I(365), yp)), SMul(32, I(97), a0)), SMul(32,
          I(24), a1))} |->
  Val([n_part2 \in {SAdd(32, SAdd(32, SAdd(32, SAdd(32, n_part1, SMul(32,
          I(1), a2)), SMul(32, I(0), a3)), Div(SAdd(32, SMul(32, I(3), mp),
          I(2)), I(5))), SMul(32, I(30), mp))} |->
  Val([n       \in {SAdd(32, n_part2, day)} |->
  Val([N       \in {SSub(32, n, I(719163))} |->
  [N  |-> N.v,
   ub |-> y.ub \/ m.ub \/ d.ub \/ year.ub \/ month.ub \/ day.ub
           \/ mp.ub \/ yp.ub \/ a0.ub \/ a1.ub \/ a2.ub \/ a3.ub
           \/ n.ub \/ N.ub] ]) ]) ]) ]) ]) ]) ]) ]) ]) ]) ]) ]) ])

\* reingold_dershowitz::gregorian_year_from_fixed
reingold_dershowitz_gregorian_year_from_fixed(date) ==
  Val([d0       \in {SSub(32, date, I(1))} |->
  Val([n400     \in {Div(d0, I(146097))} |->
  Val([d1       \in {Rem(d0, I(146097))} |->
  Val([n100     \in {Div(d1, I(36524))} |->
  Val([d2       \in {Rem(d1, I(36524))} |->
  Val([n4       \in {Div(d2, I(1461))} |->
  Val([d3       \in {Rem(d2, I(1461))} |->
  Val([n1       \in {Div(d3, I(365))} |->
  Val([year     \in {SAdd(32, SAdd(32, SAdd(32, SMul(32, I(400), n400),
          SMul(32, I(100), n100)), SMul(32, I(4), n4)), n1)} |->
  Val([result   \in {(IF (n100.v = Z(4)
          \/ n1.v = Z(4)) THEN year ELSE SAdd(32, year, I(1)))} |->
  [v  |-> result.v,
   ub |-> date.ub \/ d0.ub \/ n400.ub \/ d1.ub \/ n100.ub \/ d2.ub
           \/ n4.ub \/ d3.ub \/ n1.ub \/ year.ub
           \/ result.ub] ]) ]) ]) ]) ]) ]) ]) ]) ]) ])

\* reingold_dershowitz::fixed_from_gregorian
reingold_dershowitz_fixed_from_gregorian(year, month, day) ==
  Val([rata_die \in {reingold_dershowitz_to_rata_die(year, month, day)} |->
  SAdd(32, [v |-> rata_die.N, ub |-> rata_die.ub], I(719163)) ])

\* reingold_dershowitz::mod_1_12
reingold_dershowitz_mod_1_12(month) ==
  IF ZLt(Z(12), month.v) THEN SSub(32, month, I(12)) ELSE month

\* reingold_dershowitz::to_date
reingold_dershowitz_to_date(date) ==
  Val([date_1       \in {SAdd(32, date, I(719163))} |->
  Val([y            \in {reingold_dershowitz_gregorian_year_from_fixed(SAdd(32, SAdd(32, SSub(32, I(1), I(1)), date_1), I(306)))} |->
  Val([prior_days   \in {SSub(32, date_1,
          reingold_dershowitz_fixed_from_gregorian(SSub(32, y, I(1)), I(3),
          I(1)))} |->
  Val([month        \in {reingold_dershowitz_mod_1_12(SAdd(32, Div(SAdd(32,
          SMul(32, I(5), prior_days), I(2)), I(153)), I(3)))} |->
  Val([year         \in {SSub(32, y, Div(SAdd(32, month, I(9)), I(12)))} |->
  Val([day          \in {SAdd(32, SSub(32, date_1,
          reingold_dershowitz_fixed_from_gregorian(year, ToU(32, month),
          I(1))), I(1))} |->
  Val([month_1      \in {ToU(32, month)} |->
  Val([day_1        \in {ToU(32, day)} |->
  [date |-> Date(year.v, month_1.v, day_1.v),
   ub   |-> date.ub \/ date_1.ub \/ y.ub \/ prior_days.ub \/ month.ub
           \/ year.ub \/ day.ub \/ month_1.ub
           \/ day_1.ub] ]) ]) ]) ]) ]) ]) ]) ])

\* dotnet::s_daysToMonth365, s_daysToMonth366
dotnet_s_daysToMonth365 ==
  <<0, 31, 59, 90, 120, 151, 181, 212, 243, 273, 304, 334, 365>>
dotnet_s_daysToMonth366 ==
  <<0, 31, 60, 91, 121, 152, 182, 213, 244, 274, 305, 335, 366>>

\* days[i], for days = leapYear ? s_daysToMonth366 : s_daysToMonth365
dotnet_days(leapYear, i) ==
  I((IF leapYear THEN dotnet_s_daysToMonth366
     ELSE dotnet_s_daysToMonth365)[ZToInt(i.v) + 1])

\* while (n >= days[m]) m++;
RECURSIVE dotnet_month(_, _, _)
dotnet_month(leapYear, n, m) ==
  IF ZLe(dotnet_days(leapYear, m).v, n.v)
  THEN Val([m_1 \in {SAdd(32, m, I(1))} |-> dotnet_month(leapYear, n, m_1) ])
  ELSE m

\* dotnet::to_date
dotnet_to_date(rata_die) ==
  Val([n          \in {SAdd(32, rata_die, I(719162))} |->
  Val([y400       \in {Div(n, I(146097))} |->
  Val([n_1        \in {SSub(32, n, SMul(32, y400, I(146097)))} |->
  Val([y100       \in {Div(n_1, I(36524))} |->
  Val([y100_1     \in {(IF y100.v = Z(4) THEN I(3) ELSE y100)} |->
  Val([n_2        \in {SSub(32, n_1, SMul(32, y100_1, I(36524)))} |->
  Val([y4         \in {Div(n_2, I(1461))} |->
  Val([n_3        \in {SSub(32, n_2, SMul(32, y4, I(1461)))} |->
  Val([y1         \in {Div(n_3, I(365))} |->
  Val([y1_1       \in {(IF y1.v = Z(4) THEN I(3) ELSE y1)} |->
  Val([year       \in {SAdd(32, SAdd(32, SAdd(32, SAdd(32, SMul(32, y400,
          I(400)), SMul(32, y100_1, I(100))), SMul(32, y4, I(4))), y1_1),
          I(1))} |->
  Val([n_4        \in {SSub(32, n_3, SMul(32, y1_1, I(365)))} |->
  Val([leapYear   \in {(IF (y1_1.v = Z(3) /\ (y4.v # Z(24)
          \/ y100_1.v = Z(3))) THEN I(1) ELSE I(0))} |->
  Val([m          \in {dotnet_month(leapYear.v = Z(1), n_4, SAdd(32,
          ShiftRight(n_4, 5), I(1)))} |->
  Val([month      \in {m} |->
  Val([day        \in {SAdd(32, SSub(32, n_4, dotnet_days(leapYear.v = Z(1),
          SSub(32, m, I(1)))), I(1))} |->
  Val([month_1    \in {ToU(32, month)} |->
  Val([day_1      \in {ToU(32, day)} |->
  [date |-> Date(year.v, month_1.v, day_1.v),
   ub   |-> rata_die.ub \/ n.ub \/ y400.ub \/ n_1.ub \/ y100.ub
           \/ y100_1.ub \/ n_2.ub \/ y4.ub \/ n_3.ub \/ y1.ub
           \/ y1_1.ub \/ year.ub \/ n_4.ub \/ leapYear.ub \/ m.ub
           \/ month.ub \/ day.ub \/ month_1.ub
           \/ day_1.ub] ]) ]) ]) ]) ]) ]) ]) ]) ]) ]) ]) ]) ]) ]) ]) ]) ]) ])

\* dotnet::to_rata_die (IsLeapYear inlined)
dotnet_to_rata_die(year, month, day) ==
  Val([IsLeapYear   \in {(IF (BitAnd(year, 2).v = Z(0) /\ (BitAnd(year,
          4).v = Z(0) \/ Rem(year, I(25)).v # Z(0))) THEN I(1) ELSE I(0))} |->
  Val([y            \in {SSub(32, year, I(1))} |->
  Val([days         \in {dotnet_days(IsLeapYear.v = Z(1), USub(32, month,
          I(1)))} |->
  Val([n_part1      \in {ToU(32, SAdd(32, SAdd(32, SSub(32, SAdd(32, SMul(32,
          y, I(365)), Div(y, I(4))), Div(y, I(100))), Div(y, I(400))),
          days))} |->
  Val([n            \in {ToS(32, USub(32, UAdd(32, n_part1, day), I(1)))} |->
  Val([N            \in {SSub(32, n, I(719162))} |->
  [N  |-> N.v,
   ub |-> year.ub \/ month.ub \/ day.ub \/ IsLeapYear.ub \/ y.ub
           \/ days.ub \/ n.ub \/ N.ub] ]) ]) ]) ]) ]) ])

\* glibc::undesrcore_mon_yday[leap][i]
glibc_undesrcore_mon_yday(leap, i) ==
  I((IF leap
     THEN <<0, 31, 60, 91, 121, 152, 182, 213, 244, 274, 305, 335, 366>>
     ELSE <<0, 31, 59, 90, 120, 151, 181, 212, 243, 273, 304, 334, 365>>)
    [ZToInt(i.v) + 1])

glibc_underscore_isleap_mutant(year) ==
  Rem(year, I(4)).v = Z(0)

\* underscore_isleap(year)
glibc_underscore_isleap(year) ==
  /\ Rem(year, I(4)).v = Z(0)
  /\ Rem(year, I(100)).v # Z(0) \/ Rem(year, I(400)).v = Z(0)

\* DIV(a, b): (a) / (b) - ((a) % (b) < 0), on long int
glibc_DIV(a, b) ==
  SSub(64, Div(a, b), IF ZIsNeg(Rem(a, b).v) THEN I(1) ELSE I(0))

\* LEAPS_THRU_END_OF(y)
glibc_LEAPS_THRU_END_OF(y) ==
  SAdd(64, SSub(64, glibc_DIV(y, I(4)), glibc_DIV(y, I(100))),
       glibc_DIV(y, I(400)))

\* The while loop of glibc::to_date; the result is [days, y].
RECURSIVE glibc_year(_, _)
glibc_year(days, y) ==
  IF \/ ZIsNeg(days.v)
     \/ ZLe(Z(IF glibc_underscore_isleap(y) THEN 366 ELSE 365), days.v)
  THEN
    Val([yg     \in {SSub(64, SAdd(64, y, Div(days, I(365))),
                     IF ZIsNeg(Rem(days, I(365)).v) THEN I(1) ELSE I(0))} |->
    Val([days_1 \in {ToS(32, SSub(64, days,
                     SSub(64, SAdd(64, SMul(64, SSub(64, yg, y), I(365)),
                                   glibc_LEAPS_THRU_END_OF(SSub(64, yg, I(1)))),
                          glibc_LEAPS_THRU_END_OF(SSub(64, y, I(1))))))} |->
    glibc_year(days_1, yg) ]) ])
  ELSE [days |-> days, y |-> y]

\* for (m = 11; days < (long int) ip[m]; --m) continue;
RECURSIVE glibc_month(_, _, _)
glibc_month(leap, days, m) ==
  IF ZLt(days.v, glibc_undesrcore_mon_yday(leap, m).v)
  THEN Val([m_1 \in {SSub(64, m, I(1))} |-> glibc_month(leap, days, m_1) ])
  ELSE m

\* glibc::to_date
glibc_to_date(days) ==
  Val([found  \in {glibc_year(days, I(1970))} |->
  Val([leap   \in {glibc_underscore_isleap(found.y)} |->
  Val([m      \in {glibc_month(leap, found.days, I(11))} |->
  Val([days_1 \in {SSub(32, found.days,
                        glibc_undesrcore_mon_yday(leap, m))} |->
  Val([year   \in {ToS(32, found.y)} |->
  Val([month  \in {ToU(32, SAdd(64, m, I(1)))} |->
  Val([day    \in {ToU(32, SAdd(32, days_1, I(1)))} |->
  [date |-> Date(year.v, month.v, day.v),
   ub   |-> days.ub \/ found.days.ub \/ found.y.ub \/ m.ub \/ days_1.ub
           \/ year.ub \/ month.ub \/ day.ub] ]) ]) ]) ]) ]) ]) ])

\* glibc::shr: a >> b where >> is arithmetic, as on the builds considered
glibc_shr(a, b) == ShiftRight(a, b)

glibc_leapyear_mutant(year) ==
  BitAnd(year, 2).v = Z(0)

\* glibc::leapyear: (- (TM_YEAR_BASE / 100) & 3) is 1
glibc_leapyear(year) ==
  /\ BitAnd(year, 2).v = Z(0)
  /\ \/ Rem(year, I(100)).v # Z(0)
     \/ BitAnd(Div(year, I(100)), 2).v = Z(1)

\* glibc::ydhms_diff, with TM_YEAR_BASE = 1900
glibc_ydhms_diff(year1, yday1, year0) ==
  Val([a4   \in {ToS(32, SSub(64, SAdd(64, glibc_shr(year1, 2),
                                       glibc_shr(I(1900), 2)),
                 IF BitAnd(year1, 2).v = Z(0) THEN I(1) ELSE I(0)))} |->
  Val([b4   \in {ToS(32, SSub(64, SAdd(64, glibc_shr(year0, 2),
                                       glibc_shr(I(1900), 2)),
                 IF BitAnd(year0, 2).v = Z(0) THEN I(1) ELSE I(0)))} |->
  Val([a100 \in {SSub(32, Div(a4, I(25)),
                 IF ZIsNeg(Rem(a4, I(25)).v) THEN I(1) ELSE I(0))} |->
  Val([b100 \in {SSub(32, Div(b4, I(25)),
                 IF ZIsNeg(Rem(b4, I(25)).v) THEN I(1) ELSE I(0))} |->
  Val([a400 \in {ToS(32, glibc_shr(a100, 2))} |->
  Val([b400 \in {ToS(32, glibc_shr(b100, 2))} |->
  Val([intervening_leap_days \in
         {SAdd(32, SSub(32, SSub(32, a4, b4), SSub(32, a100, b100)),
               SSub(32, a400, b400))} |->
  Val([years \in {SSub(64, year1, year0)} |->
  Val([days  \in {SAdd(64, SAdd(64, SMul(64, I(365), years), yday1),
                       intervening_leap_days)} |->
  [v  |-> days.v,
   ub |-> year1.ub \/ yday1.ub \/ a4.ub \/ b4.ub \/ a100.ub \/ b100.ub
           \/ a400.ub \/ b400.ub \/ intervening_leap_days.ub \/ years.ub
           \/ days.ub] ]) ]) ]) ]) ]) ]) ]) ]) ])

\* glibc::to_rata_die, with EPOCH_YEAR = 1970 and TM_YEAR_BASE = 1900
glibc_to_rata_die(y, month, day) ==
  Val([mday     \in {ToS(32, day)} |->
  Val([mon      \in {ToS(32, USub(32, month, I(1)))} |->
  Val([year     \in {SSub(32, y, I(1900))} |->
  Val([mon_yday \in {SSub(32, glibc_undesrcore_mon_yday(
                                glibc_leapyear(year), mon), I(1))} |->
  Val([yday     \in {SAdd(32, mon_yday, mday)} |->
  Val([t0       \in {glibc_ydhms_diff(year, yday, I(70))} |->
  [N  |-> ToS(32, t0).v,
   ub |-> y.ub \/ month.ub \/ day.ub \/ mday.ub \/ mon.ub \/ year.ub
           \/ mon_yday.ub \/ yday.ub \/ t0.ub] ]) ]) ]) ]) ]) ])

---------------------------------------------------------------------------
(***************************************************************************)
(* algorithm_tests.cpp for the algorithms of other libraries: the four     *)
(* typed tests walk from (0, unix_epoch) to the limits of limits<T> with   *)
(* gregorian_helper_t's advance and regress.  The loops take 146097 steps; *)
(* the model enters them at chosen rata dies, as the loops of              *)
(* eaf_tests.cpp are entered above.                                         *)
(***************************************************************************)

\* the implementations that use the primary template limits<T>
ReferenceAlgorithms ==
  {"baum", "boost", "dotnet", "fliegel_flandern", "glibc", "hatcher",
   "libcxx", "openjdk", "reingold_dershowitz"}

\* to_date of the implementations, in plain integers
reference_to_date(alg, N) ==
  date_result(
    CASE alg = "baum"                -> baum_to_date(I(N))
      [] alg = "boost"               -> boost_to_date(I(N))
      [] alg = "dotnet"              -> dotnet_to_date(I(N))
      [] alg = "fliegel_flandern"    -> fliegel_flandern_to_date(I(N))
      [] alg = "glibc"               -> glibc_to_date(I(N))
      [] alg = "hatcher"             -> hatcher_to_date(I(N))
      [] alg = "libcxx"              -> libcxx_to_date(I(N))
      [] alg = "openjdk"             -> openjdk_to_date(I(N))
      [] alg = "reingold_dershowitz" -> reingold_dershowitz_to_date(I(N)))

\* to_rata_die of the implementations, in plain integers
reference_to_rata_die(alg, date) ==
  rata_die_result(
    Val([y \in {I(date.year)} |->
    Val([m \in {I(date.month)} |->
    Val([d \in {I(date.day)} |->
    CASE alg = "baum"                -> baum_to_rata_die(y, m, d)
      [] alg = "boost"               -> boost_to_rata_die(y, m, d)
      [] alg = "dotnet"              -> dotnet_to_rata_die(y, m, d)
      [] alg = "fliegel_flandern"    -> fliegel_flandern_to_rata_die(y, m, d)
      [] alg = "glibc"               -> glibc_to_rata_die(y, m, d)
      [] alg = "hatcher"             -> hatcher_to_rata_die(y, m, d)
      [] alg = "libcxx"              -> libcxx_to_rata_die(y, m, d)
      [] alg = "openjdk"             -> openjdk_to_rata_die(y, m, d)
      [] alg = "reingold_dershowitz" ->
           reingold_dershowitz_to_rata_die(y, m, d) ]) ]) ]))

\* limits<T>, the primary template
reference_date_min == date32(1570, 1, 1)
reference_date_max == date32(2370, 1, 1)
reference_rata_die_min == -146097
reference_rata_die_max == 146097

unix_epoch == date32(1970, 1, 1)

\* the number of steps a loop is followed for
AlgSpan == 16

\* years whose end of February the loops are followed through
AlgYears == {1600, 1900, 2000, 2023, 2024, 2100}

AlgStarts(test) ==
  CASE test = "to_date_forward" ->
         {0, reference_rata_die_max - AlgSpan}
           \cup {RataDieAt("neri_schneider", date32(y, 2, 20)) : y \in AlgYears}
    [] test = "to_date_backward" ->
         {0, reference_rata_die_min + AlgSpan}
           \cup {RataDieAt("neri_schneider", date32(y, 3, 8)) : y \in AlgYears}
    [] test = "to_rata_die_forward" ->
         {0, RataDieAt("neri_schneider", reference_date_max) - AlgSpan}
           \cup {RataDieAt("neri_schneider", date32(y, 2, 20)) : y \in AlgYears}
    [] test = "to_rata_die_backward" ->
         {0, RataDieAt("neri_schneider", reference_date_min) + AlgSpan}
           \cup {RataDieAt("neri_schneider", date32(y, 3, 8)) : y \in AlgYears}

AlgInit ==
  /\ dv = DivIdle /\ cv = ConvIdle /\ fe = FastIdle
  /\ \E test \in StepTests, alg \in ReferenceAlgorithms :
       \E n \in AlgStarts(test) :
         st = [pc |-> "loop", test |-> test, alg |-> alg, steps |-> 0,
               n |-> n, date |-> DateAt("neri_schneider", n),
               got_date |-> DateAt("neri_schneider", n), got_n |-> n]

\* for (n = 0; n < rata_die_max; ) {
\*   tomorrow = to_date(++n); ASSERT_EQ(tomorrow, advance(date)); }
AlgToDateForwardStep ==
  /\ st.pc = "loop" /\ st.test = "to_date_forward"
  /\ st.steps < AlgSpan
  /\ st.n < reference_rata_die_max
  /\ \E n \in {st.n + 1} :
       \E tomorrow \in {reference_to_date(st.alg, n)},
          date \in {advance("neri_schneider", st.date)} :
         \E next \in {[st EXCEPT !.n = n, !.date = date, !.steps = @ + 1,
                                 !.got_date = tomorrow.date]} :
           \/ st' = [next EXCEPT !.pc = IF tomorrow.date = date
                                        THEN "loop" ELSE "failed"]
           \/ tomorrow.ub /\ st' = [next EXCEPT !.pc = "trapped"]
  /\ UNCHANGED <<dv, cv, fe>>

\* for (n = 0; rata_die_min < n; ) {
\*   yesterday = to_date(--n); ASSERT_EQ(yesterday, regress(date)); }
AlgToDateBackwardStep ==
  /\ st.pc = "loop" /\ st.test = "to_date_backward"
  /\ st.steps < AlgSpan
  /\ reference_rata_die_min < st.n
  /\ \E n \in {st.n - 1} :
       \E yesterday \in {reference_to_date(st.alg, n)},
          date \in {regress("neri_schneider", st.date)} :
         \E next \in {[st EXCEPT !.n = n, !.date = date, !.steps = @ + 1,
                                 !.got_date = yesterday.date]} :
           \/ st' = [next EXCEPT !.pc = IF yesterday.date = date
                                        THEN "loop" ELSE "failed"]
           \/ yesterday.ub /\ st' = [next EXCEPT !.pc = "trapped"]
  /\ UNCHANGED <<dv, cv, fe>>

\* for (date = unix_epoch; date < date_max; ) {
\*   tomorrow = to_rata_die(advance(date)); ASSERT_EQ(tomorrow, ++n); }
AlgToRataDieForwardStep ==
  /\ st.pc = "loop" /\ st.test = "to_rata_die_forward"
  /\ st.steps < AlgSpan
  /\ date_lt(st.date, reference_date_max)
  /\ \E date \in {advance("neri_schneider", st.date)} :
       \E tomorrow \in {reference_to_rata_die(st.alg, date)},
          n \in {st.n + 1} :
         \E next \in {[st EXCEPT !.n = n, !.date = date, !.steps = @ + 1,
                                 !.got_n = tomorrow.N]} :
           \/ st' = [next EXCEPT !.pc = IF tomorrow.N = n
                                        THEN "loop" ELSE "failed"]
           \/ tomorrow.ub /\ st' = [next EXCEPT !.pc = "trapped"]
  /\ UNCHANGED <<dv, cv, fe>>

\* for (date = unix_epoch; date_min < date; ) {
\*   yesterday = to_rata_die(regress(date)); ASSERT_EQ(yesterday, --n); }
AlgToRataDieBackwardStep ==
  /\ st.pc = "loop" /\ st.test = "to_rata_die_backward"
  /\ st.steps < AlgSpan
  /\ date_lt(reference_date_min, st.date)
  /\ \E date \in {regress("neri_schneider", st.date)} :
       \E yesterday \in {reference_to_rata_die(st.alg, date)},
          n \in {st.n - 1} :
         \E next \in {[st EXCEPT !.n = n, !.date = date, !.steps = @ + 1,
                                 !.got_n = yesterday.N]} :
           \/ st' = [next EXCEPT !.pc = IF yesterday.N = n
                                        THEN "loop" ELSE "failed"]
           \/ yesterday.ub /\ st' = [next EXCEPT !.pc = "trapped"]
  /\ UNCHANGED <<dv, cv, fe>>

\* the condition of the loop is false: the test is over
AlgLoopExit ==
  /\ st.pc = "loop"
  /\ CASE st.test = "to_date_forward" -> ~(st.n < reference_rata_die_max)
       [] st.test = "to_date_backward" -> ~(reference_rata_die_min < st.n)
       [] st.test = "to_rata_die_forward" ->
            ~date_lt(st.date, reference_date_max)
       [] st.test = "to_rata_die_backward" ->
            ~date_lt(reference_date_min, st.date)
  /\ st' = [st EXCEPT !.pc = "passed"]
  /\ UNCHANGED <<dv, cv, fe>>

AlgNext ==
  \/ AlgToDateForwardStep
  \/ AlgToDateBackwardStep
  \/ AlgToRataDieForwardStep
  \/ AlgToRataDieBackwardStep
  \/ AlgLoopExit

SpecAlg == AlgInit /\ [][AlgNext]_vars

\* C14: for every rata die N in [-146097, 146097], to_date(N) of each of the
\* nine reference algorithms is the date neri_schneider::to_date(N)
\* returns, and it is the date the day incrementer or decrementer holds
\* after |N| steps from (1970, 1, 1); no operation of theirs overflows.
C14_ReferenceToDateAgrees ==
  (st.pc # "idle" /\ st.test \in {"to_date_forward", "to_date_backward"}
     /\ st.steps > 0) =>
    /\ st.pc \in {"loop", "passed"}
    /\ st.got_date = st.date
    /\ st.got_date = date_result(neri_schneider_to_date(Z(st.n))).date
    /\ st.date = DateAt("neri_schneider", st.n)

\* glibc has converted 29 February 2000 and the last rata die of the range.
C14_Witness ==
  /\ st.pc \in {"loop", "passed"} /\ st.alg = "glibc" /\ st.steps > 0
  /\ \/ st.test = "to_date_forward" /\ st.got_date = date32(2000, 2, 29)
     \/ st.test = "to_date_forward" /\ st.n = reference_rata_die_max
          /\ st.got_date = date32(2370, 1, 1)

\* C15: for every date from (1570, 1, 1) to (2370, 1, 1), to_rata_die of
\* each of the nine reference algorithms is what neri_schneider::to_rata_die
\* returns, and it is the signed number of days from (1970, 1, 1) to the
\* date; no operation of theirs overflows.
C15_ReferenceToRataDieAgrees ==
  (st.pc # "idle"
     /\ st.test \in {"to_rata_die_forward", "to_rata_die_backward"}
     /\ st.steps > 0) =>
    /\ st.pc \in {"loop", "passed"}
    /\ st.got_n = st.n
    /\ Z(st.got_n) = neri_schneider_to_rata_die(
                       Z(st.date.year), Z(st.date.month), Z(st.date.day)).N
    /\ st.n = RataDieAt("neri_schneider", st.date)

\* dotnet has converted 1 March 1900 on the way back from 8 March 1900.
C15_Witness ==
  /\ st.pc = "loop" /\ st.alg = "dotnet" /\ st.steps > 0
  /\ st.test = "to_rata_die_backward"
  /\ st.date = date32(1900, 3, 1) /\ st.got_n = -25508

---------------------------------------------------------------------------
(***************************************************************************)
(* The bounds warnings of eaf/julian.hpp and eaf/gregorian.hpp.  Each      *)
(* conversion function first compares its argument with the limits and     *)
(* writes a line to std::cout when it is outside of them, and then goes on *)
(* to the computation whatever the comparison said.                        *)
(***************************************************************************)

RataDieWarning ==
  "WARNING: Rata die is out of bounds. (The code has undefined behaviour.)"
DateWarning ==
  "WARNING: Date is out of bounds. (The code has undefined behaviour.)"

\* a faulty comparison, which takes the month for the most significant
date_before_mutant(date_1, date_2) ==
  \/ ZLt(date_1.month, date_2.month)
  \/ /\ date_1.month = date_2.month
     /\ \/ ZLt(date_1.year, date_2.year)
        \/ date_1.year = date_2.year /\ ZLt(date_1.day, date_2.day)

\* operator <(date_t, date_t): std::tie(year, month, day) of the one is
\* less than that of the other
date_before(date_1, date_2) ==
  \/ ZLt(date_1.year, date_2.year)
  \/ /\ date_1.year = date_2.year
     /\ \/ ZLt(date_1.month, date_2.month)
        \/ date_1.month = date_2.month /\ ZLt(date_1.day, date_2.day)

\* the limits a function of the calendar compares its argument with
warning_rata_die_min(cal) ==
  IF cal \in {"julian", "gregorian"} THEN limits_rata_die_min(32)
  ELSE opt_rata_die_min(32, opt_epoch(cal), opt_s(cal))
warning_rata_die_max(cal) ==
  IF cal \in {"julian", "gregorian"} THEN limits_rata_die_max(32)
  ELSE opt_rata_die_max(32, opt_epoch(cal), opt_s(cal))
warning_date_min(cal) ==
  IF cal \in {"julian", "gregorian"} THEN limits_date_min(32)
  ELSE opt_date_min(32, opt_epoch(cal), opt_s(cal))
warning_date_max(cal) ==
  IF cal \in {"julian", "gregorian"} THEN limits_date_max(32)
  ELSE opt_date_max(32, opt_epoch(cal), opt_s(cal))

\* if (N < rata_die_min || rata_die_max < N) std::cout << "WARNING: ...";
rata_die_warning(cal, N) ==
  IF ZLt(N, warning_rata_die_min(cal)) \/ ZLt(warning_rata_die_max(cal), N)
  THEN <<RataDieWarning>> ELSE <<>>

\* if (date < date_min || date_max < date) std::cout << "WARNING: ...";
date_warning(cal, date) ==
  IF \/ date_before(date, warning_date_min(cal))
     \/ date_before(warning_date_max(cal), date)
  THEN <<DateWarning>> ELSE <<>>

\* how far from a limit the arguments are taken
WarnSpan == 2

WarnRataDies(cal) ==
  {ZAdd(b, Z(i)) : b \in {warning_rata_die_min(cal), Z(0),
                          warning_rata_die_max(cal)},
                   i \in (-WarnSpan)..WarnSpan}
    \cup {TMin(32), TMax(32)}

WarnDates(cal) ==
  {Date(ZAdd(y, Z(i)), Z(m), Z(d)) :
     y \in {warning_date_min(cal).year, Z(1970),
            warning_date_max(cal).year},
     i \in (-WarnSpan)..WarnSpan, m \in {1, 2, 3, 12}, d \in {1, 27, 28, 29}}
    \cup {Date(y, Z(m), Z(1)) : y \in {TMin(32), TMax(32)}, m \in {1, 12}}

WarnInit ==
  /\ dv = DivIdle /\ st = StepIdle /\ fe = FastIdle
  /\ \E cal \in Calendars :
       \/ \E N \in WarnRataDies(cal) :
            cv = [pc |-> "call", fn |-> "to_date", cal |-> cal, N |-> N,
                  N_txt |-> ZStr(N), cout |-> <<>>, ub |-> FALSE]
       \/ \E date \in WarnDates(cal) :
            cv = [pc |-> "call", fn |-> "to_rata_die", cal |-> cal,
                  date |-> date, year_txt |-> ZStr(date.year), cout |-> <<>>,
                  ub |-> FALSE]

\* what a call ends in: the function returns, or an overflowing signed
\* operation traps
WarnOutcome(cout, r) ==
  \/ cv' = [cv EXCEPT !.pc = "returned", !.cout = cout, !.ub = r.ub]
  \/ r.ub /\ cv' = [cv EXCEPT !.pc = "trapped", !.cout = cout, !.ub = TRUE]

\* julian::to_date<int32_t>(N) and gregorian::to_date<int32_t>(N)
WarnToDate ==
  /\ cv.pc = "call" /\ cv.fn = "to_date"
  /\ cv.cal \in {"julian", "gregorian"}
  /\ \E cout \in {rata_die_warning(cv.cal, cv.N)} :
       \E r \in {IF cv.cal = "julian" THEN julian_to_date(32, V(cv.N))
                 ELSE gregorian_to_date(32, V(cv.N))} :
         WarnOutcome(cout, r)
  /\ UNCHANGED <<dv, st, fe>>

\* julian::to_rata_die<int32_t> and gregorian::to_rata_die<int32_t>
WarnToRataDie ==
  /\ cv.pc = "call" /\ cv.fn = "to_rata_die"
  /\ cv.cal \in {"julian", "gregorian"}
  /\ \E cout \in {date_warning(cv.cal, cv.date)} :
       \E r \in {IF cv.cal = "julian"
                 THEN julian_to_rata_die(32, V(cv.date.year),
                                         V(cv.date.month), V(cv.date.day))
                 ELSE gregorian_to_rata_die(32, V(cv.date.year),
                                            V(cv.date.month),
                                            V(cv.date.day))} :
         WarnOutcome(cout, r)
  /\ UNCHANGED <<dv, st, fe>>

\* gregorian::to_date_opt<int32_t, epoch, s>(N_U)
WarnToDateOpt ==
  /\ cv.pc = "call" /\ cv.fn = "to_date"
  /\ cv.cal \in {"gregorian_opt", "gregorian_unix"}
  /\ \E cout \in {rata_die_warning(cv.cal, cv.N)} :
       \E r \in {gregorian_to_date_opt(32, opt_epoch(cv.cal), opt_s(cv.cal),
                                       cv.N)} :
         WarnOutcome(cout, r)
  /\ UNCHANGED <<dv, st, fe>>

\* gregorian::to_rata_die_opt<int32_t, epoch, s>(Y_G, M_G, D_G)
WarnToRataDieOpt ==
  /\ cv.pc = "call" /\ cv.fn = "to_rata_die"
  /\ cv.cal \in {"gregorian_opt", "gregorian_unix"}
  /\ \E cout \in {date_warning(cv.cal, cv.date)} :
       \E r \in {gregorian_to_rata_die_opt(32, opt_epoch(cv.cal),
                   opt_s(cv.cal), cv.date.year, cv.date.month,
                   cv.date.day)} :
         WarnOutcome(cout, r)
  /\ UNCHANGED <<dv, st, fe>>

WarnNext == WarnToDate \/ WarnToRataDie \/ WarnToDateOpt \/ WarnToRataDieOpt

SpecWarn == WarnInit /\ [][WarnNext]_vars

\* the argument of the call is outside of the bounds of its function: the
\* rata die is below rata_die_min or above rata_die_max, the date is before
\* date_min or after date_max in the lexicographic order
LexBefore(x, y) ==
  IF x.year # y.year THEN ZLt(x.year, y.year)
  ELSE IF x.month # y.month THEN ZLt(x.month, y.month)
  ELSE ZLt(x.day, y.day)

WarnOutside ==
  IF cv.fn = "to_date"
  THEN ~(ZLe(warning_rata_die_min(cv.cal), cv.N)
           /\ ZLe(cv.N, warning_rata_die_max(cv.cal)))
  ELSE \/ LexBefore(cv.date, warning_date_min(cv.cal))
       \/ LexBefore(warning_date_max(cv.cal), cv.date)

WarnExpected ==
  IF ~WarnOutside THEN <<>>
  ELSE IF cv.fn = "to_date" THEN <<RataDieWarning>> ELSE <<DateWarning>>

---------------------------------------------------------------------------
(***************************************************************************)
(* main of paper/fast_eaf.cpp.  An argument is the sequence of its         *)
(* characters.  strtoumax and strtoimax are those of the C library: they   *)
(* skip white space, take an optional sign and the longest run of digits,  *)
(* leave end_ptr at nptr when there is no digit, and return the nearest    *)
(* limit of the type when the number is outside of it.                     *)
(***************************************************************************)

IsDigit(c) == c \in {"0", "1", "2", "3", "4", "5", "6", "7", "8", "9"}

DigitValue(c) ==
  CHOOSE v \in 0..9 : <<"0", "1", "2", "3", "4", "5", "6", "7", "8", "9">>[v + 1] = c

\* the index of the first character at or after i that is not white space
RECURSIVE SpacesEnd(_, _)
SpacesEnd(nptr, i) ==
  IF i <= Len(nptr) /\ nptr[i] = " " THEN SpacesEnd(nptr, i + 1) ELSE i

\* the index of the first character at or after i that is not a digit
RECURSIVE DigitsEnd(_, _)
DigitsEnd(nptr, i) ==
  IF i <= Len(nptr) /\ IsDigit(nptr[i]) THEN DigitsEnd(nptr, i + 1) ELSE i

\* the number written by the digits nptr[i], ..., nptr[j - 1]
RECURSIVE DecimalValue(_, _, _, _)
DecimalValue(nptr, i, j, acc) ==
  IF i = j THEN acc
  ELSE Val([next \in {ZAdd(ZMul(acc, Z(10)), Z(DigitValue(nptr[i])))} |->
       DecimalValue(nptr, i + 1, j, next) ])

\* the subject sequence of strtoumax and strtoimax in base 10
Subject(nptr) ==
  LET sign  == SpacesEnd(nptr, 1)
      first == IF sign <= Len(nptr) /\ nptr[sign] \in {"+", "-"}
               THEN sign + 1 ELSE sign
      end   == DigitsEnd(nptr, first)
  IN  [found |-> first < end,
       neg   |-> sign <= Len(nptr) /\ nptr[sign] = "-",
       mag   |-> DecimalValue(nptr, first, end, Z(0)),
       end   |-> end]

\* std::strtoumax(nptr, &end_ptr, 10): end_ptr is an index into nptr, and
\* 1 is nptr itself
strtoumax(nptr) ==
  Val([s \in {Subject(nptr)} |->
    IF ~s.found THEN [value |-> Z(0), end_ptr |-> 1]
    ELSE [value   |-> IF ZLt(UMax(64), s.mag) THEN UMax(64)
                      ELSE IF s.neg THEN WrapU(64, ZNeg(s.mag)) ELSE s.mag,
          end_ptr |-> s.end] ])

\* std::strtoimax(nptr, &end_ptr, 10)
strtoimax(nptr) ==
  Val([s \in {Subject(nptr)} |->
    IF ~s.found THEN [value |-> Z(0), end_ptr |-> 1]
    ELSE [value   |-> IF s.neg
                      THEN IF ZLt(ZNeg(s.mag), TMin(64)) THEN TMin(64)
                           ELSE ZNeg(s.mag)
                      ELSE IF ZLt(TMax(64), s.mag) THEN TMax(64)
                           ELSE s.mag,
          end_ptr |-> s.end] ])

\* The arguments drawn.  No d outside of uint64_t is drawn: strtoumax turns
\* it into 2^64 - 1, and the loops of get_fast_eaf over 0 <= n < d do not
\* end in the model.
MainRoundings == {<<"u", "p">>, <<"d", "o", "w", "n">>, <<"u", "p", "x">>}
MainAs == {<<"2">>,
           <<"x">>,
           <<"1", "8", "4", "4", "6", "7", "4", "4", "0", "7", "3", "7", "0", "9", "5", "5", "1", "6", "1", "6">>}
MainBs == {<<"-", "3">>,
           <<>>,
           <<"9", "2", "2", "3", "3", "7", "2", "0", "3", "6", "8", "5", "4", "7", "7", "5", "8", "0", "8">>}
MainDs == {<<"3">>, <<"q">>}
MainKs == {<<"1">>, <<"0">>, <<"6", "5">>, <<"k">>, <<"2", "k">>}

\* the most k arguments of a command line
MainMaxKs == 2

MainKLists ==
  UNION {[1..n -> MainKs] : n \in 0..MainMaxKs}

\* argv[1], ..., argv[argc - 1]
MainArgv ==
  {<<r, a, b, d>> \o ks :
     r \in MainRoundings, a \in MainAs, b \in MainBs, d \in MainDs,
     ks \in MainKLists}

MainInit ==
  /\ dv = DivIdle /\ cv = ConvIdle /\ st = StepIdle
  /\ \E argv \in MainArgv :
       fe = [pc |-> "main", argv |-> argv, argc |-> Len(argv) + 1,
             cerr |-> <<>>, cout |-> <<>>]

\* std::cerr << ...; exit(1);
MainExit1(diagnostic) ==
  [fe EXCEPT !.pc = "exit", !.cerr = Append(@, diagnostic)] @@ [status |-> 1]

\* main up to the loop: the number of arguments, rounding, a, b and d.
\* uarg < umin || uarg > umax and iarg < imin || iarg > imax compare a
\* value of uintmax_t and intmax_t with the limits of uint64_t and int64_t.
MainArguments ==
  /\ fe.pc = "main"
  /\ fe' =
       IF fe.argc < 6 THEN MainExit1("requires at least 5 arguments")
       ELSE IF fe.argv[1] \notin {<<"u", "p">>, <<"d", "o", "w", "n">>}
       THEN MainExit1("unknown 'rounding'")
       ELSE
       Val([a \in {strtoumax(fe.argv[2])} |->
       Val([b \in {strtoimax(fe.argv[3])} |->
       Val([d \in {strtoumax(fe.argv[4])} |->
         IF a.end_ptr = 1 THEN MainExit1("cannot parse 'a'")
         ELSE IF ZLt(a.value, Z(0)) \/ ZLt(UMax(64), a.value)
         THEN MainExit1("a must be in")
         ELSE IF b.end_ptr = 1 THEN MainExit1("cannot parse 'b'")
         ELSE IF ZLt(b.value, TMin(64)) \/ ZLt(TMax(64), b.value)
         THEN MainExit1("b must be in")
         ELSE IF d.end_ptr = 1 THEN MainExit1("cannot parse 'd'")
         ELSE IF ZLt(d.value, Z(0)) \/ ZLt(UMax(64), d.value)
         THEN MainExit1("d must be in")
         ELSE [fe EXCEPT !.pc = "loop"]
                @@ [i        |-> 5,
                    rounding |-> IF fe.argv[1] = <<"u", "p">> THEN "up"
                                 ELSE "down",
                    eaf      |-> eaf_t(a.value, b.value, d.value),
                    eaf_txt  |-> FastText(eaf_t(a.value, b.value, d.value))]
       ]) ]) ])
  /\ UNCHANGED <<dv, cv, st>>

\* One round of for (i = 5; i < argc; ++i): argv[i] is k.  A k that is not
\* in [1, 64] is reported and skipped; otherwise get_fast_eaf is called and
\* its result is written to std::cout, unless an assertion of its fails or
\* a division by zero of its throws.
MainK ==
  /\ fe.pc = "loop" /\ fe.i < fe.argc
  /\ \E k \in {strtoumax(fe.argv[fe.i])} :
       IF k.end_ptr = 1 THEN fe' = MainExit1("cannot parse 'k'")
       ELSE IF ZLt(k.value, Z(1)) \/ ZLt(Z(64), k.value)
       THEN fe' = [fe EXCEPT !.cerr = Append(@, "k must be in [1, 64]"),
                             !.i = @ + 1]
       ELSE \E narrowing \in Narrowings :
              \E res \in {get_fast_eaf(fe.rounding, ZToInt(k.value), fe.eaf,
                                       narrowing)} :
                fe' = IF res.end = "returned"
                      THEN [fe EXCEPT !.cout = Append(@, FastText(
                                        [a |-> res.fast.a, b |-> res.fast.b,
                                         U |-> res.fast.U]) @@ [i |-> fe.i]),
                                      !.i = @ + 1]
                      ELSE [fe EXCEPT !.pc = res.end]
  /\ UNCHANGED <<dv, cv, st>>

\* i = argc: main returns
MainReturn ==
  /\ fe.pc = "loop" /\ fe.i = fe.argc
  /\ fe' = [fe EXCEPT !.pc = "exit"] @@ [status |-> 0]
  /\ UNCHANGED <<dv, cv, st>>

MainNext == MainArguments \/ MainK \/ MainReturn

SpecMain == MainInit /\ [][MainNext]_vars

\* the argument is a decimal number, all of it
IsNumber(arg) ==
  \E first \in 1..2 :
    /\ first <= Len(arg)
    /\ first = 2 => arg[1] \in {"+", "-"}
    /\ \A i \in first..Len(arg) : IsDigit(arg[i])

NumberOf(arg) ==
  IF arg[1] = "-" THEN ZNeg(DecimalValue(arg, 2, Len(arg) + 1, Z(0)))
  ELSE DecimalValue(arg, IF arg[1] = "+" THEN 2 ELSE 1, Len(arg) + 1, Z(0))

\* the argument is a number from lo to hi
IsNumberIn(arg, lo, hi) ==
  IsNumber(arg) /\ ZLe(lo, NumberOf(arg)) /\ ZLe(NumberOf(arg), hi)

\* argv[i] is unparsable or outside of its permitted range
MainBad(argv, i) ==
  CASE i = 1  -> argv[1] \notin {<<"u", "p">>, <<"d", "o", "w", "n">>}
    [] i = 2  -> ~IsNumberIn(argv[2], Z(0), UMax(64))
    [] i = 3  -> ~IsNumberIn(argv[3], TMin(64), TMax(64))
    [] i = 4  -> ~IsNumberIn(argv[4], Z(0), UMax(64))
    [] OTHER  -> ~IsNumberIn(argv[i], Z(1), Z(64))

\* C17: whenever an argument (rounding, a, b, d or a k) is unparsable or
\* outside of its permitted range, main ends with a diagnostic on standard
\* error and with exit status 1, and what it has written to standard output
\* are results of k arguments before the first such argument only.
C17_RejectsBadInput ==
  (fe.pc \in {"exit", "assert", "terminate"} /\ fe.argc >= 6) =>
    \A i \in 1..Len(fe.argv) :
      MainBad(fe.argv, i) =>
        /\ fe.pc = "exit" /\ fe.status = 1
        /\ fe.cerr # <<>>
        /\ \A j \in 1..Len(fe.cout) : fe.cout[j].i < i

---------------------------------------------------------------------------
\* ceil(x / y) for y > 0
Ceil(x, y) == ZNeg(Floor(ZNeg(x), y))

\* x mod y for y > 0
Mod(x, y) == ZSub(x, ZMul(y, Floor(x, y)))

\* C18: in round-up mode get_fast_eaf returns a' = ceil(2^k * a / d) and
\* uses epsilon = d - (2^k * a mod d), for every a > 0, d > 0 and k in
\* 1..64, the inputs where d divides 2^k * a included.
C18_RoundUpCoefficient ==
  (fe.pc \in {"returned", "evaluated"} /\ fe.rounding = "up"
     /\ ZLt(Z(0), fe.eaf.a)) =>
    /\ fe.fast.a = Ceil(ZMul(ZPow2(fe.k), fe.eaf.a), fe.eaf.d)
    /\ fe.derived.epsilon =
         ZSub(fe.eaf.d, Mod(ZMul(ZPow2(fe.k), fe.eaf.a), fe.eaf.d))

\* a' * n - 2^k * floor((a * n + b) / d) for the a' returned
GapAt(n) ==
  ZSub(ZMul(fe.fast.a, n), ZMul(ZPow2(fe.k), EafAt(fe.eaf, n)))

\* a' * n + b' - 2^k * floor((a * n + b) / d) for the a' and b' returned
ExcessAt(n) == ZAdd(GapAt(n), fe.fast.b)

\* C19: with g(n) = a' * n - 2^k * floor((a * n + b) / d), round-up mode
\* returns b' = -min g(n) over 0 <= n < d, so that a' * n + b' is at least
\* 2^k * floor((a * n + b) / d) on [0, d) with equality for some n;
\* round-down mode returns b' = 2^k - 1 - max g(n), so that a' * n + b' -
\* 2^k * floor((a * n + b) / d) is at most 2^k - 1 on [0, d) with equality
\* for some n.
C19_ChoiceOfOffset ==
  fe.pc \in {"returned", "evaluated"} =>
    IF fe.rounding = "up"
    THEN /\ fe.fast.b = ZNeg(ZMin({GapAt(n) : n \in LoopRange(fe.eaf)}))
         /\ \A n \in LoopRange(fe.eaf) : ZLe(Z(0), ExcessAt(n))
         /\ \E n \in LoopRange(fe.eaf) : ExcessAt(n) = Z(0)
    ELSE /\ fe.fast.b =
              ZSub(ZSub(ZPow2(fe.k), Z(1)),
                   ZMax({GapAt(n) : n \in LoopRange(fe.eaf)}))
         /\ \A n \in LoopRange(fe.eaf) :
              ZLe(ExcessAt(n), ZSub(ZPow2(fe.k), Z(1)))
         /\ \E n \in LoopRange(fe.eaf) :
              ExcessAt(n) = ZSub(ZPow2(fe.k), Z(1))

---------------------------------------------------------------------------
(***************************************************************************)
(* get_fast_eaf in steps: the coefficients a', epsilon and b', then one    *)
(* round of the loop for U per residue n, then the assertions and the      *)
(* return statement.                                                       *)
(***************************************************************************)

BoundInit ==
  /\ dv = DivIdle /\ cv = ConvIdle /\ st = StepIdle
  /\ \E args \in FastArgs :
       fe = [pc |-> "args", rounding |-> args.rounding, k |-> args.k,
             eaf |-> args.eaf, eaf_txt |-> FastText(args.eaf)]

\* a', epsilon and b'
Coefficients ==
  /\ fe.pc = "args"
  /\ \E p2_k \in {I128(ZPow2(fe.k))} :
     \E q_p2_k_a \in {ZDivT(I128(ZMul(p2_k, fe.eaf.a)), fe.eaf.d)},
        r_p2_k_a \in {ZRemT(I128(ZMul(p2_k, fe.eaf.a)), fe.eaf.d)} :
     \E a_p \in {IF fe.rounding = "up" THEN I128(ZAdd(q_p2_k_a, Z(1)))
                 ELSE q_p2_k_a},
        epsilon \in {IF fe.rounding = "up"
                     THEN I128(ZSub(fe.eaf.d, r_p2_k_a)) ELSE r_p2_k_a} :
     \E b_p \in {b_p_of(fe.rounding = "up", fe.eaf, p2_k, a_p)} :
       fe' = [pc |-> "bound", rounding |-> fe.rounding, k |-> fe.k,
              eaf |-> fe.eaf, eaf_txt |-> fe.eaf_txt,
              derived |-> [a_p |-> a_p, epsilon |-> epsilon, b_p |-> b_p],
              derived_txt |-> FastText([a_p |-> a_p, epsilon |-> epsilon,
                                        b_p |-> b_p]),
              n |-> Z(0), steps |-> <<>>,
              raw |-> {ZPow2(fe.k), ZMul(p2_k, fe.eaf.a), q_p2_k_a,
                       r_p2_k_a, ZAdd(q_p2_k_a, Z(1)),
                       ZSub(fe.eaf.d, r_p2_k_a)}
                        \cup b_p_raw(fe.rounding = "up", fe.eaf, p2_k, a_p)]
  /\ UNCHANGED <<dv, cv, st>>

\* U = P(0), and U = std::min(U, P(n)) for 0 < n < d; the division of Q
\* by an epsilon of 0 throws
BoundStep ==
  /\ fe.pc = "bound" /\ ZLt(fe.n, fe.eaf.d)
  /\ \E q \in {Q(fe.rounding = "up", fe.eaf, I128(ZPow2(fe.k)),
                 fe.derived.a_p, fe.derived.epsilon, fe.derived.b_p, fe.n)} :
     \E p \in {I128(ZAdd(I128(ZMul(q.v, fe.eaf.d)), fe.n))} :
       fe' = IF q.div0 THEN [fe EXCEPT !.pc = "terminate"]
             ELSE [fe EXCEPT
                     !.n = ZAdd(@, Z(1)),
                     !.steps = Append(@, [n |-> fe.n, Q |-> q.v, P |-> p,
                                          Q_txt |-> ZStr(q.v)]),
                     !.raw = Q_raw(fe.rounding = "up", fe.eaf,
                                   I128(ZPow2(fe.k)), fe.derived.a_p,
                                   fe.derived.epsilon, fe.derived.b_p, fe.n)
                               \cup P_raw(fe.eaf, q.v, fe.n)]
                    @@ [U |-> IF fe.n = Z(0) THEN p ELSE ZMin({fe.U, p})]
  /\ UNCHANGED <<dv, cv, st>>

\* the assertions and the return statement
BoundReturn ==
  /\ fe.pc = "bound" /\ fe.n = fe.eaf.d
  /\ \E narrowing \in Narrowings :
       fe' = IF \/ ZLt(UMax(64), fe.derived.a_p)
                \/ ZLt(TMax(64), fe.derived.b_p)
                \/ ZLt(UMax(64), fe.U)
             THEN [fe EXCEPT !.pc = "assert"]
             ELSE [fe EXCEPT !.pc = "returned"]
                    @@ [fast |-> [a |-> uint64_of(fe.derived.a_p),
                                  b |-> int64_of(fe.derived.b_p, narrowing),
                                  d |-> uint64_of(I128(ZPow2(fe.k))),
                                  k |-> fe.k,
                                  U |-> uint64_of(fe.U)]]
  /\ UNCHANGED <<dv, cv, st>>

BoundNext == Coefficients \/ BoundStep \/ BoundReturn

SpecBound == BoundInit /\ [][BoundNext]_vars

\* g(n) + b' = a' * n + b' - 2^k * floor((a * n + b) / d) for the a' and b'
\* derived
ErrorAt(n) ==
  ZAdd(ZSub(ZMul(fe.derived.a_p, n), ZMul(ZPow2(fe.k), EafAt(fe.eaf, n))),
       fe.derived.b_p)

\* h(n) of the rounding mode
HAt(n) ==
  IF fe.rounding = "up" THEN ZSub(ZPow2(fe.k), ErrorAt(n)) ELSE ErrorAt(n)

\* C20 as stated: in both rounding modes, for every residue n in [0, d),
\* the Q(n) computed is 0 when h(n) <= 0 and the ceiling of h(n) / epsilon
\* otherwise.
C20_CeilingInBothModes ==
  fe.pc \in {"bound", "returned", "assert"} =>
    \A i \in 1..Len(fe.steps) :
      fe.steps[i].Q =
        IF ZLe(HAt(fe.steps[i].n), Z(0)) THEN Z(0)
        ELSE Ceil(HAt(fe.steps[i].n), fe.derived.epsilon)

\* C20, amended: for every residue n in [0, d), the Q(n) computed is, in
\* round-up mode, 0 when h(n) <= 0 and the ceiling of h(n) / epsilon
\* otherwise, and in round-down mode, 0 when h(n) < 0 and
\* floor(h(n) / epsilon) + 1 otherwise.
C20_ClosedFormOfQ ==
  fe.pc \in {"bound", "returned", "assert"} =>
    \A i \in 1..Len(fe.steps) :
      fe.steps[i].Q =
        IF fe.rounding = "up"
        THEN IF ZLe(HAt(fe.steps[i].n), Z(0)) THEN Z(0)
             ELSE Ceil(HAt(fe.steps[i].n), fe.derived.epsilon)
        ELSE IF ZLt(HAt(fe.steps[i].n), Z(0)) THEN Z(0)
             ELSE ZAdd(Floor(HAt(fe.steps[i].n), fe.derived.epsilon), Z(1))

\* in round-down mode a residue with h(n) = 0 has got Q(n) = 1, and in
\* round-up mode a residue with h(n) > 0 has got a Q(n) above 0
C20_Witness ==
  /\ fe.pc = "bound" /\ fe.steps # <<>>
  /\ \/ /\ fe.rounding = "down"
        /\ HAt(fe.steps[Len(fe.steps)].n) = Z(0)
        /\ fe.steps[Len(fe.steps)].Q = Z(1)
     \/ /\ fe.rounding = "up"
        /\ ZLt(Z(0), HAt(fe.steps[Len(fe.steps)].n))
        /\ ZLt(Z(0), fe.steps[Len(fe.steps)].Q)

---------------------------------------------------------------------------
(***************************************************************************)
(* get_fast_eaf in steps, at the ends of the ranges of a, b and k.         *)
(***************************************************************************)

WideMaxD == 3
WideKs == {1, 63, 64}
WideAs == {Z(0), Z(1), ZPow2(63), UMax(64)}
WideBs == {TMin(64), Z(-1), Z(0), TMax(64)}

WideInit ==
  /\ dv = DivIdle /\ cv = ConvIdle /\ st = StepIdle
  /\ \E r \in {"up", "down"}, k \in WideKs, a \in WideAs, b \in WideBs,
        d \in 1..WideMaxD :
       fe = [pc |-> "args", rounding |-> r, k |-> k,
             eaf |-> eaf_t(a, b, Z(d)), eaf_txt |-> FastText(eaf_t(a, b, Z(d)))]

WideNext == Coefficients \/ BoundStep \/ BoundReturn

SpecWide == WideInit /\ [][WideNext]_vars

\* C21 as stated: every intermediate value of get_fast_eaf lies within
\* the signed 128-bit range [-2^127, 2^127).
C21_WithinSigned128 ==
  fe.pc \in {"bound", "terminate", "assert", "returned"} =>
    \A x \in fe.raw : ZLe(TMin(128), x) /\ ZLe(x, TMax(128))

\* C21, amended: every intermediate value of get_fast_eaf lies within the
\* range of int128_t of boost, a sign and a magnitude of 128 bits:
\* (-2^128, 2^128).
C21_WithinInt128OfBoost ==
  fe.pc \in {"bound", "terminate", "assert", "returned"} =>
    \A x \in fe.raw : ZLt(ZNeg(ZPow2(128)), x) /\ ZLt(x, ZPow2(128))

\* for k = 64 and a = 2^64 - 1 the product 2^k * a is above 2^127
C21_Witness ==
  /\ fe.pc = "bound" /\ fe.k = 64 /\ fe.eaf.a = UMax(64)
  /\ ZMul(ZPow2(64), UMax(64)) \in fe.raw
  /\ ZLt(TMax(128), ZMul(ZPow2(64), UMax(64)))

\* C22: get_fast_eaf never divides by zero: in both rounding modes the
\* divisor epsilon of Q(n) is not 0 whenever the division is evaluated, so
\* no call ends in the exception of a division by zero.
C22_NeverDividesByZero ==
  /\ fe.pc # "terminate"
  /\ (fe.pc = "bound" /\ ZLt(fe.n, fe.eaf.d)) =>
       ~Q(fe.rounding = "up", fe.eaf, I128(ZPow2(fe.k)), fe.derived.a_p,
          fe.derived.epsilon, fe.derived.b_p, fe.n).div0

---------------------------------------------------------------------------
(***************************************************************************)
(* The year step of to_date_opt and paper/example_12.cpp.  The loops of    *)
(* example 12 are run at the n = 1461 * q + r of Example12Ns.              *)
(***************************************************************************)

\* lhs and rhs of the loop "Using signed integers..."
example_12_signed(n) ==
  [lhs |-> ToS(32, Rem(V(n), I(1461))),
   rhs |-> ToS(32, Div(Rem(SMul(64, I(2939745), V(n)), V(ZPow2(32))),
                       I(2939745)))]

\* lhs and rhs of the loop "Using unsigned integers..."
example_12_unsigned(n) ==
  [lhs |-> ToU(32, Rem(V(n), I(1461))),
   rhs |-> ToU(32, Div(Rem(SMul(64, I(2939745), V(n)), V(ZPow2(32))),
                       I(2939745)))]

\* the end of the loops: n < 28825529
example_12_end == 28825529

\* the number of values of N_C
YearCycle == 36525

Example12Span == 2
Example12Qs == {0, 1, 2, 100, 19728, 19729}
Example12Rs == (0..Example12Span) \cup ((1460 - Example12Span)..1460)
Example12Ns ==
  {n \in {1461 * q + r : q \in Example12Qs, r \in Example12Rs} :
     n < example_12_end}

YearInit ==
  /\ cv = ConvIdle /\ st = StepIdle /\ fe = FastIdle
  /\ \/ \E N_C \in 0..(YearCycle - 1) :
          dv = [pc |-> "to_date_opt", N_C |-> N_C]
     \/ \E n \in Example12Ns :
          dv = [pc |-> "example_12", n |-> n]

\* lines "Year." of to_date_opt
ToDateOptYear ==
  /\ dv.pc = "to_date_opt"
  /\ \E year \in {to_date_opt_year(Z(dv.N_C))} :
       dv' = [pc |-> "year", N_C |-> dv.N_C,
              N_2 |-> ZToInt(year.N_2), P_2 |-> ZStr(year.P_2),
              Z |-> ZToInt(year.Z), N_Y |-> ZToInt(year.N_Y)]
  /\ UNCHANGED <<cv, st, fe>>

\* one round of the first loop of example 12
Example12Signed ==
  /\ dv.pc = "example_12"
  /\ \E t \in {example_12_signed(Z(dv.n))} :
       dv' = [pc |-> "tested", loop |-> "signed", n |-> dv.n,
              lhs |-> ZToInt(t.lhs.v), rhs |-> ZToInt(t.rhs.v),
              ub |-> t.lhs.ub \/ t.rhs.ub,
              pass |-> t.lhs.v = t.rhs.v]
  /\ UNCHANGED <<cv, st, fe>>

\* one round of the second loop of example 12
Example12Unsigned ==
  /\ dv.pc = "example_12"
  /\ \E t \in {example_12_unsigned(Z(dv.n))} :
       dv' = [pc |-> "tested", loop |-> "unsigned", n |-> dv.n,
              lhs |-> ZToInt(t.lhs.v), rhs |-> ZToInt(t.rhs.v),
              ub |-> t.lhs.ub \/ t.rhs.ub,
              pass |-> t.lhs.v = t.rhs.v]
  /\ UNCHANGED <<cv, st, fe>>

YearNext == ToDateOptYear \/ Example12Signed \/ Example12Unsigned

SpecYear == YearInit /\ [][YearNext]_vars

\* C23: for every N_C in [0, 36525) and N_2 = 4 * N_C + 3, the year step
\* of to_date_opt gives Z = N_2 / 1461 and N_Y = (N_2 mod 1461) / 4; and
\* n % 1461 = (2939745 * n mod 2^32) / 2939745 in both loops of example 12
\* for every n in [0, 28825529).
C23_DivisionFreeYearStep ==
  /\ dv.pc = "year" =>
       /\ dv.N_2 = 4 * dv.N_C + 3
       /\ dv.Z = dv.N_2 \div 1461
       /\ dv.N_Y = (dv.N_2 % 1461) \div 4
  /\ dv.pc = "tested" =>
       /\ dv.pass /\ ~dv.ub
       /\ dv.lhs = dv.n % 1461
       /\ dv.rhs = dv.n % 1461

\* the last day of the last year of a century, and the greatest n of the
\* loops of example 12
C23_Witness ==
  \/ dv.pc = "year" /\ dv.N_C = YearCycle - 1 /\ dv.Z = 99 /\ dv.N_Y = 365
  \/ dv.pc = "tested" /\ dv.n = example_12_end - 1 /\ dv.rhs = 1459

---------------------------------------------------------------------------
(***************************************************************************)
(* paper/example_13.cpp: the day of the month with and without division.   *)
(***************************************************************************)

\* a faulty loop body: the multiplier of the fast EAF is 2142
example_13_signed_mutant(N_Y) ==
  [lhs |-> Div(Rem(SAdd(32, SMul(32, I(5), V(N_Y)), I(461)), I(153)), I(5)),
   rhs |-> Div(Rem(SAdd(32, SMul(32, I(2142), V(N_Y)), I(197913)),
                   I(65536)), I(2141))]

\* lhs and rhs of the loop "Using signed integers..."
example_13_signed(N_Y) ==
  [lhs |-> Div(Rem(SAdd(32, SMul(32, I(5), V(N_Y)), I(461)), I(153)), I(5)),
   rhs |-> Div(Rem(SAdd(32, SMul(32, I(2141), V(N_Y)), I(197913)),
                   I(65536)), I(2141))]

\* lhs and rhs of the loop "Using unsigned integers..."
example_13_unsigned(N_Y) ==
  [lhs |-> Div(Rem(UAdd(32, UMul(32, I(5), V(N_Y)), I(461)), I(153)), I(5)),
   rhs |-> Div(Rem(UAdd(32, UMul(32, I(2141), V(N_Y)), I(197913)),
                   I(65536)), I(2141))]

\* the end of the loops: N_Y < 734
example_13_end == 734

DayInit ==
  /\ cv = ConvIdle /\ st = StepIdle /\ fe = FastIdle
  /\ \E N_Y \in 0..(example_13_end - 1) :
       dv = [pc |-> "example_13", N_Y |-> N_Y]

\* one round of the first loop of example 13
Example13Signed ==
  /\ dv.pc = "example_13"
  /\ \E t \in {example_13_signed(Z(dv.N_Y))} :
       dv' = [pc |-> "tested", loop |-> "signed", N_Y |-> dv.N_Y,
              lhs |-> ZToInt(t.lhs.v), rhs |-> ZToInt(t.rhs.v),
              ub |-> t.lhs.ub \/ t.rhs.ub,
              pass |-> t.lhs.v = t.rhs.v]
  /\ UNCHANGED <<cv, st, fe>>

\* one round of the second loop of example 13
Example13Unsigned ==
  /\ dv.pc = "example_13"
  /\ \E t \in {example_13_unsigned(Z(dv.N_Y))} :
       dv' = [pc |-> "tested", loop |-> "unsigned", N_Y |-> dv.N_Y,
              lhs |-> ZToInt(t.lhs.v), rhs |-> ZToInt(t.rhs.v),
              ub |-> t.lhs.ub \/ t.rhs.ub,
              pass |-> t.lhs.v = t.rhs.v]
  /\ UNCHANGED <<cv, st, fe>>

DayNext == Example13Signed \/ Example13Unsigned

SpecDay == DayInit /\ [][DayNext]_vars

\* C24: for every N_Y in [0, 734), ((5 * N_Y + 461) mod 153) / 5 is
\* ((2141 * N_Y + 197913) mod 65536) / 2141, in signed and in unsigned
\* arithmetic of 32 bits.
C24_DivisionFreeDayStep ==
  dv.pc = "tested" =>
    /\ dv.pass /\ ~dv.ub
    /\ dv.lhs = ((5 * dv.N_Y + 461) % 153) \div 5
    /\ dv.rhs = ((5 * dv.N_Y + 461) % 153) \div 5

\* the last N_Y of both loops: day 29 (counted from 0) of the month
C24_Witness ==
  /\ dv.pc = "tested" /\ dv.N_Y = example_13_end - 1
  /\ dv.rhs = ((5 * (example_13_end - 1) + 461) % 153) \div 5

---------------------------------------------------------------------------
(***************************************************************************)
(* example_09.cpp and the month offset of neri_schneider::to_rata_die,     *)
(* next to the call of get_fast_eaf that derives its coefficients.         *)
(***************************************************************************)

\* a faulty loop body: the offset of the fast EAF is -2918
example_09_signed_mutant(M) ==
  [lhs |-> ToS(32, quotient(32, SSub(32, SMul(32, I(153), V(M)), I(457)),
                            I(5))),
   rhs |-> ToS(32, quotient(32, SSub(32, SMul(32, I(979), V(M)), I(2918)),
                            I(32)))]

\* lhs and rhs of the loop "Using signed integers..."
example_09_signed(M) ==
  [lhs |-> ToS(32, quotient(32, SSub(32, SMul(32, I(153), V(M)), I(457)),
                            I(5))),
   rhs |-> ToS(32, quotient(32, SSub(32, SMul(32, I(979), V(M)), I(2919)),
                            I(32)))]

\* lhs and rhs of the loop "Using unsigned integers..."
example_09_unsigned(M) ==
  [lhs |-> Div(USub(32, UMul(32, I(153), V(M)), I(457)), I(5)),
   rhs |-> Div(USub(32, UMul(32, I(979), V(M)), I(2919)), I(32))]

\* the end of the loops: M < 34
example_09_end == 34

\* the computational months: March is 3, February is 14
ComputationalMonths == 3..14

\* the call get_fast_eaf(rounding_t::down, 5, { 153, -457, 5 })
OffsetExample ==
  [rounding |-> "down", k |-> 5, eaf |-> eaf_t(Z(153), Z(-457), Z(5))]

OffsetInit ==
  /\ cv = ConvIdle /\ st = StepIdle
  /\ fe = [pc |-> "args", rounding |-> OffsetExample.rounding,
           k |-> OffsetExample.k, eaf |-> OffsetExample.eaf,
           eaf_txt |-> FastText(OffsetExample.eaf)]
  /\ \/ \E M \in 0..(example_09_end - 1) :
          dv = [pc |-> "example_09", M |-> M]
     \/ \E M \in ComputationalMonths :
          dv = [pc |-> "to_rata_die", M |-> M]

\* one round of the first loop of example 9
Example09Signed ==
  /\ dv.pc = "example_09"
  /\ \E t \in {example_09_signed(Z(dv.M))} :
       dv' = [pc |-> "tested", loop |-> "signed", M |-> dv.M,
              lhs |-> ZToInt(t.lhs.v), rhs |-> ZToInt(t.rhs.v),
              ub |-> t.lhs.ub \/ t.rhs.ub,
              pass |-> t.lhs.v = t.rhs.v]
  /\ UNCHANGED <<cv, st, fe>>

\* one round of the second loop of example 9
Example09Unsigned ==
  /\ dv.pc = "example_09"
  /\ \E t \in {example_09_unsigned(Z(dv.M))} :
       dv' = [pc |-> "tested", loop |-> "unsigned", M |-> dv.M,
              lhs |-> ZStr(t.lhs.v), rhs |-> ZStr(t.rhs.v),
              ub |-> t.lhs.ub \/ t.rhs.ub,
              pass |-> t.lhs.v = t.rhs.v]
  /\ UNCHANGED <<cv, st, fe>>

\* m_star of neri_schneider::to_rata_die
MStar ==
  /\ dv.pc = "to_rata_die"
  /\ dv' = [pc |-> "m_star", M |-> dv.M,
            m_star |-> ZToInt(neri_schneider_m_star(Z(dv.M)))]
  /\ UNCHANGED <<cv, st, fe>>

OffsetNext == Example09Signed \/ Example09Unsigned \/ MStar \/ CallGetFastEaf

SpecOffset == OffsetInit /\ [][OffsetNext]_vars

\* C25: get_fast_eaf with round down, k = 5 and the EAF (153, -457, 5)
\* returns a' = 979, b' = -2919 and U = 34; quotient(153 * M - 457, 5) is
\* quotient(979 * M - 2919, 32) on signed integers for every M in [0, 34);
\* and m_star of neri_schneider::to_rata_die is (153 * M - 457) / 5 for
\* every computational month M in [3, 14].
C25_MonthOffset ==
  /\ fe.pc # "args" =>
       /\ fe.pc = "returned"
       /\ fe.fast.a = Z(979) /\ fe.fast.b = Z(-2919) /\ fe.fast.U = Z(34)
  /\ (dv.pc = "tested" /\ dv.loop = "signed") =>
       /\ dv.pass /\ ~dv.ub
       /\ dv.lhs = (153 * dv.M - 457) \div 5
       /\ dv.rhs = (153 * dv.M - 457) \div 5
  /\ dv.pc = "m_star" => dv.m_star = (153 * dv.M - 457) \div 5

\* the coefficients are returned and the quotients of the negative
\* numerators -457 and -2919 of M = 0 are both -92
C25_Witness ==
  /\ fe.pc = "returned"
  /\ dv.pc = "tested" /\ dv.loop = "signed" /\ dv.M = 0
  /\ dv.lhs = -92 /\ dv.rhs = -92

---------------------------------------------------------------------------
(***************************************************************************)
(* gregorian::to_date next to to_date_opt<int32_t, 0, 0>, and              *)
(* gregorian::to_rata_die next to to_rata_die_opt<int32_t, 0, 0>, on the   *)
(* same argument.                                                          *)
(***************************************************************************)

RefineSpan == 2

\* rata dies around which the arguments are drawn: the epoch, the first
\* 1 January, the ends of the first year, century and cycle, 1 January 1970
\* and rata_die_max of limits<int32_t>
RefineBases ==
  {0, 306, 365, 36524, 146097, 719468, calendar_rata_die_max("gregorian")}

RefineRataDies ==
  {n \in {b + i : b \in RefineBases, i \in (-RefineSpan)..RefineSpan} :
     0 <= n /\ n <= calendar_rata_die_max("gregorian")}

RefineYears ==
  {0, 1, 4, 100, 400, 1970, 2000,
   calendar_date_max("gregorian").year - 1,
   calendar_date_max("gregorian").year}

RefineDates ==
  {d \in {date32(y, mo, dy) :
            y \in RefineYears, mo \in 1..12, dy \in {1, 28, 29, 30, 31}} :
     /\ ~date_lt(d, calendar_date_min("gregorian_opt"))
     /\ ~date_lt(calendar_date_max("gregorian"), d)
     /\ d.day <= last_day_of_month("gregorian", d.year, d.month)}

RefineInit ==
  /\ dv = DivIdle /\ st = StepIdle /\ fe = FastIdle
  /\ \/ \E N \in RefineRataDies : cv = [pc |-> "rata_die", N |-> N]
     \/ \E date \in RefineDates : cv = [pc |-> "date", date |-> date]

\* to_date(N) and to_date_opt<int32_t, 0, 0>(N); an overflowing signed
\* operation may trap
RefineToDate ==
  /\ cv.pc = "rata_die"
  /\ \E plain \in {calendar_to_date("gregorian", cv.N)},
        opt \in {calendar_to_date("gregorian_opt", cv.N)} :
       \/ cv' = [pc |-> "dates", N |-> cv.N, plain |-> plain.date,
                 opt |-> opt.date, ub |-> plain.ub \/ opt.ub]
       \/ (plain.ub \/ opt.ub) /\ cv' = [pc |-> "trapped", N |-> cv.N]
  /\ UNCHANGED <<dv, st, fe>>

\* to_rata_die(date) and to_rata_die_opt<int32_t, 0, 0>(date)
RefineToRataDie ==
  /\ cv.pc = "date"
  /\ \E plain \in {calendar_to_rata_die("gregorian", cv.date)},
        opt \in {calendar_to_rata_die("gregorian_opt", cv.date)} :
       \/ cv' = [pc |-> "rata_dies", date |-> cv.date, plain |-> plain.N,
                 opt |-> opt.N, ub |-> plain.ub \/ opt.ub]
       \/ (plain.ub \/ opt.ub) /\ cv' = [pc |-> "trapped", date |-> cv.date]
  /\ UNCHANGED <<dv, st, fe>>

RefineNext == RefineToDate \/ RefineToRataDie

SpecRefine == RefineInit /\ [][RefineNext]_vars

\* C26: for T = int32_t and every N with 0 <= N <= limits<T>::rata_die_max,
\* to_date_opt<T, 0, 0>(N) is gregorian::to_date(N); for every date from
\* limits_gregorian_opt<T, 0, 0>::date_min to limits<T>::date_max,
\* to_rata_die_opt<T, 0, 0>(date) is gregorian::to_rata_die(date); so the
\* map test N_Y >= 306 selects the dates of the test M >= 13.
C26_OptRefinesPlain ==
  /\ cv.pc # "trapped"
  /\ cv.pc \in {"dates", "rata_dies"} => (cv.plain = cv.opt /\ ~cv.ub)

\* 1 January 0001 is rata die 306, the first one with N_Y >= 306, and the
\* date of limits<int32_t>::date_max has got its rata die from both
C26_Witness ==
  \/ /\ cv.pc = "dates" /\ cv.N = 306
     /\ cv.opt = date32(1, 1, 1) /\ cv.plain = date32(1, 1, 1)
  \/ /\ cv.pc = "rata_dies" /\ cv.date = calendar_date_max("gregorian")
     /\ cv.opt = cv.plain

---------------------------------------------------------------------------
(***************************************************************************)
(* to_date_opt<int32_t, epoch, s> next to to_date_opt<int32_t, epoch, s'>, *)
(* and the same of to_rata_die_opt, on an argument within the bounds of    *)
(* both.                                                                   *)
(***************************************************************************)

ShiftSpan == 2
ShiftEpochs == {0, 719468}
ShiftCycles == {-1, 0, 1, 82}

\* the rata dies within limits_gregorian_opt<int32_t, epoch, s> of both s
ShiftRataDies(epoch, s_1, s_2) ==
  LET lo == ZToInt(ZMax({opt_rata_die_min(32, Z(epoch), Z(s_1)),
                         opt_rata_die_min(32, Z(epoch), Z(s_2))}))
      hi == ZToInt(ZMin({opt_rata_die_max(32, Z(epoch), Z(s_1)),
                         opt_rata_die_max(32, Z(epoch), Z(s_2))}))
  IN  {n \in (lo..(lo + ShiftSpan)) \cup ((-ShiftSpan)..ShiftSpan)
               \cup ((hi - ShiftSpan)..hi) : lo <= n /\ n <= hi}

\* dates within limits_gregorian_opt<int32_t, epoch, s> of both s
ShiftDates(epoch, s_1, s_2) ==
  LET min_1 == DateOfZ(opt_date_min(32, Z(epoch), Z(s_1)))
      min_2 == DateOfZ(opt_date_min(32, Z(epoch), Z(s_2)))
      max_1 == DateOfZ(opt_date_max(32, Z(epoch), Z(s_1)))
      max_2 == DateOfZ(opt_date_max(32, Z(epoch), Z(s_2)))
      lo    == IF date_lt(min_1, min_2) THEN min_2 ELSE min_1
      hi    == IF date_lt(max_1, max_2) THEN max_1 ELSE max_2
  IN  {d \in {lo, date32(lo.year, 12, 31), date32(lo.year + 1, 1, 1),
              date32(lo.year + 1, 2, 28), date32(1970, 1, 1),
              date32(2000, 2, 29), date32(hi.year - 1, 3, 1),
              date32(hi.year - 1, 12, 31), date32(hi.year, 1, 1), hi} :
         ~date_lt(d, lo) /\ ~date_lt(hi, d)}

ShiftInit ==
  /\ dv = DivIdle /\ st = StepIdle /\ fe = FastIdle
  /\ \E epoch \in ShiftEpochs, s_1 \in ShiftCycles, s_2 \in ShiftCycles :
       /\ s_1 < s_2
       /\ \/ \E N \in ShiftRataDies(epoch, s_1, s_2) :
               cv = [pc |-> "rata_die", epoch |-> epoch, s_1 |-> s_1,
                     s_2 |-> s_2, N |-> N]
          \/ \E date \in ShiftDates(epoch, s_1, s_2) :
               cv = [pc |-> "date", epoch |-> epoch, s_1 |-> s_1,
                     s_2 |-> s_2, date |-> date]

\* to_date_opt<int32_t, epoch, s_1>(N) and to_date_opt<int32_t, epoch, s_2>(N)
ShiftToDate ==
  /\ cv.pc = "rata_die"
  /\ \E r_1 \in {gregorian_to_date_opt(32, Z(cv.epoch), Z(cv.s_1), Z(cv.N))},
        r_2 \in {gregorian_to_date_opt(32, Z(cv.epoch), Z(cv.s_2), Z(cv.N))} :
       cv' = [pc |-> "dates", epoch |-> cv.epoch, s_1 |-> cv.s_1,
              s_2 |-> cv.s_2, N |-> cv.N,
              date_1 |-> DateOfZ(r_1.date), date_2 |-> DateOfZ(r_2.date)]
  /\ UNCHANGED <<dv, st, fe>>

\* to_rata_die_opt<int32_t, epoch, s_1>(date) and
\* to_rata_die_opt<int32_t, epoch, s_2>(date)
ShiftToRataDie ==
  /\ cv.pc = "date"
  /\ \E r_1 \in {gregorian_to_rata_die_opt(32, Z(cv.epoch), Z(cv.s_1),
                   Z(cv.date.year), Z(cv.date.month), Z(cv.date.day))},
        r_2 \in {gregorian_to_rata_die_opt(32, Z(cv.epoch), Z(cv.s_2),
                   Z(cv.date.year), Z(cv.date.month), Z(cv.date.day))} :
       cv' = [pc |-> "rata_dies", epoch |-> cv.epoch, s_1 |-> cv.s_1,
              s_2 |-> cv.s_2, date |-> cv.date,
              N_1 |-> ZToInt(r_1.N), N_2 |-> ZToInt(r_2.N)]
  /\ UNCHANGED <<dv, st, fe>>

ShiftNext == ShiftToDate \/ ShiftToRataDie

SpecShift == ShiftInit /\ [][ShiftNext]_vars

\* C27: for T = int32_t, an epoch and two cycle counts s and s', every N
\* within the rata die bounds of both limits_gregorian_opt gets the same
\* date from to_date_opt<T, epoch, s> and to_date_opt<T, epoch, s'>, and
\* every date within the date bounds of both gets the same rata die from
\* the two to_rata_die_opt.
C27_CycleShiftKeepsResults ==
  /\ cv.pc = "dates" => cv.date_1 = cv.date_2
  /\ cv.pc = "rata_dies" => cv.N_1 = cv.N_2

\* with the Unix epoch, 1 January 1970 is the date of rata die 0 for
\* s = 0 and s = 82, and rata die 0 that of the date
C27_Witness ==
  /\ cv.pc \in {"dates", "rata_dies"}
  /\ cv.epoch = 719468 /\ cv.s_1 = 0 /\ cv.s_2 = 82
  /\ \/ cv.pc = "dates" /\ cv.N = 0 /\ cv.date_1 = date32(1970, 1, 1)
     \/ /\ cv.pc = "rata_dies" /\ cv.date = date32(1970, 1, 1)
        /\ cv.N_1 = 0

---------------------------------------------------------------------------
(***************************************************************************)
(* neri_schneider next to to_date_opt<int32_t, 719468, 82> and             *)
(* to_rata_die_opt<int32_t, 719468, 82> (gregorian_unix), on the same      *)
(* argument.                                                               *)
(***************************************************************************)

HardSpan == 2

\* the ends of the bounds, 0, and 28 February to 1 March 2000
HardRataDies ==
  LET lo == algorithm_rata_die_min("neri_schneider")
      hi == algorithm_rata_die_max("neri_schneider")
  IN  {n \in (lo..(lo + HardSpan)) \cup ((-HardSpan)..HardSpan)
               \cup (11015..11017)
               \cup ((hi - HardSpan)..hi) : lo <= n /\ n <= hi}

HardYears ==
  {algorithm_date_min("neri_schneider").year,
   algorithm_date_min("neri_schneider").year + 1, -1, 0, 1970, 2000,
   algorithm_date_max("neri_schneider").year - 1,
   algorithm_date_max("neri_schneider").year}

\* month in [1, 12] and day in [1, 31], from date_min to date_max
HardDates ==
  {d \in {date32(y, mo, dy) :
            y \in HardYears, mo \in 1..12, dy \in {1, 2, 28, 29, 30, 31}} :
     /\ ~date_lt(d, algorithm_date_min("neri_schneider"))
     /\ ~date_lt(algorithm_date_max("neri_schneider"), d)}

HardInit ==
  /\ dv = DivIdle /\ st = StepIdle /\ fe = FastIdle
  /\ \/ \E N \in HardRataDies : cv = [pc |-> "rata_die", N |-> N]
     \/ \E date \in HardDates : cv = [pc |-> "date", date |-> date]

\* neri_schneider::to_date(N) and to_date_opt<int32_t, 719468, 82>(N)
HardToDate ==
  /\ cv.pc = "rata_die"
  /\ \E hard \in {algorithm_to_date("neri_schneider", cv.N)},
        opt \in {calendar_to_date("gregorian_unix", cv.N)} :
       cv' = [pc |-> "dates", N |-> cv.N, hard |-> hard.date,
              opt |-> opt.date]
  /\ UNCHANGED <<dv, st, fe>>

\* neri_schneider::to_rata_die(date) and
\* to_rata_die_opt<int32_t, 719468, 82>(date)
HardToRataDie ==
  /\ cv.pc = "date"
  /\ \E hard \in {algorithm_to_rata_die("neri_schneider", cv.date)},
        opt \in {calendar_to_rata_die("gregorian_unix", cv.date)} :
       cv' = [pc |-> "rata_dies", date |-> cv.date, hard |-> hard.N,
              opt |-> opt.N]
  /\ UNCHANGED <<dv, st, fe>>

HardNext == HardToDate \/ HardToRataDie

SpecHard == HardInit /\ [][HardNext]_vars

\* C28: for every N from neri_schneider::rata_die_min to rata_die_max,
\* neri_schneider::to_date(N) is to_date_opt<int32_t, 719468, 82>(N); for
\* every date with month in [1, 12] and day in [1, 31] from
\* neri_schneider::date_min to date_max, neri_schneider::to_rata_die is
\* to_rata_die_opt<int32_t, 719468, 82>.
C28_HardCodedEqualsGeneric ==
  cv.pc \in {"dates", "rata_dies"} => cv.hard = cv.opt

\* 29 February 2000 is rata die 11016 for both, and both give the date of
\* rata_die_max
C28_Witness ==
  \/ /\ cv.pc = "rata_dies" /\ cv.date = date32(2000, 2, 29)
     /\ cv.hard = 11016 /\ cv.opt = 11016
  \/ /\ cv.pc = "dates" /\ cv.N = algorithm_rata_die_max("neri_schneider")
     /\ cv.hard = cv.opt

\* C29: the constants of neri_schneider, rata_die_min = -12699422,
\* rata_die_max = 1061042401, date_min = (-32800, 3, 1) and date_max =
\* (2906945, 2, 28), are those of limits_gregorian_opt<int32_t, 719468, 82>:
\* -K, (2^32 - 1 - 3) / 4 - K, (-L, 3, 1) and ((2^32 - 1) / 1461 - L + 1,
\* 2, 28) with K = 719468 + 146097 * 82 and L = 400 * 82.
C29_PublishedBounds ==
  cv.pc # "idle" =>
    /\ algorithm_rata_die_min("neri_schneider") = -12699422
    /\ algorithm_rata_die_max("neri_schneider") = 1061042401
    /\ algorithm_date_min("neri_schneider") = date32(-32800, 3, 1)
    /\ algorithm_date_max("neri_schneider") = date32(2906945, 2, 28)
    /\ neri_schneider_K = opt_K(Z(719468), Z(82))
    /\ neri_schneider_L = opt_L(Z(82))
    /\ ZToInt(neri_schneider_K) = 719468 + 146097 * 82
    /\ ZToInt(neri_schneider_L) = 400 * 82
    /\ Z(algorithm_rata_die_min("neri_schneider"))
         = opt_rata_die_min(32, Z(719468), Z(82))
    /\ algorithm_rata_die_min("neri_schneider") = -(719468 + 146097 * 82)
    /\ Z(algorithm_rata_die_max("neri_schneider"))
         = opt_rata_die_max(32, Z(719468), Z(82))
    /\ Z(algorithm_rata_die_max("neri_schneider"))
         = ZSub(Floor(ZSub(UMax(32), Z(3)), Z(4)), Z(719468 + 146097 * 82))
    /\ algorithm_date_min("neri_schneider")
         = DateOfZ(opt_date_min(32, Z(719468), Z(82)))
    /\ algorithm_date_min("neri_schneider") = date32(-(400 * 82), 3, 1)
    /\ algorithm_date_max("neri_schneider")
         = DateOfZ(opt_date_max(32, Z(719468), Z(82)))
    /\ algorithm_date_max("neri_schneider")
         = date32(ZToInt(Floor(UMax(32), Z(1461))) - 400 * 82 + 1, 2, 28)

\* both functions are called at the published rata_die_min and give the
\* published date_min, and at the published date_max
C29_Witness ==
  \/ /\ cv.pc = "dates" /\ cv.N = -12699422
     /\ cv.hard = date32(-32800, 3, 1) /\ cv.opt = date32(-32800, 3, 1)
  \/ /\ cv.pc = "rata_dies" /\ cv.date = date32(2906945, 2, 28)
     /\ cv.hard = cv.opt

---------------------------------------------------------------------------
(***************************************************************************)
(* julian.hpp: limits<int32_t>, limits<int64_t> and to_date, whose         *)
(* statements are those of to_date of eaf/julian.hpp (julian_to_date).     *)
(***************************************************************************)

\* the integer written with the groups of six decimal digits hi, mid, lo
Decimal(hi, mid, lo) ==
  ZAdd(ZMul(ZAdd(ZMul(Z(hi), Z(1000000)), Z(mid)), Z(1000000)), Z(lo))

\* a faulty N_min: -2^(S - 3)
julian_N_min_mutant(w) ==
  IF w = 32 THEN Z(-536870912) ELSE ZNeg(Decimal(2305843, 9213, 693952))

\* limits<T>::N_min
julian_N_min(w) ==
  IF w = 32 THEN Z(-536870547) ELSE ZNeg(Decimal(2305843, 9213, 693587))

\* limits<T>::N_max
julian_N_max(w) ==
  IF w = 32 THEN Z(536870911) ELSE Decimal(2305843, 9213, 693951)

JulianSpan == 12

JulianRataDies(w) ==
  {ZAdd(julian_N_min(w), Z(i)) : i \in 0..JulianSpan}
    \cup {Z(i) : i \in (-JulianSpan)..JulianSpan}
    \cup {ZSub(julian_N_max(w), Z(i)) : i \in 0..JulianSpan}

JulianInit ==
  /\ dv = DivIdle /\ st = StepIdle /\ fe = FastIdle
  /\ \E w \in DomainWidths :
       \E N \in JulianRataDies(w) :
         cv = [pc |-> "domain", w |-> w, cal |-> "julian", N |-> N,
               N_txt |-> ZStr(N)]

JulianNext == JulianToDate

SpecJulian == JulianInit /\ [][JulianNext]_vars

\* C30: for S in {32, 64} and every N with -2^(S - 3) + 365 <= N <=
\* 2^(S - 3) - 1, the N_min and N_max of limits<T>, no intermediate of
\* julian::to_date overflows T and the date returned is the proleptic
\* Julian date N days from 1 March 0000, with month in [1, 12] and day
\* within the length of the month.
C30_JulianToDateWithinBounds ==
  /\ cv.pc # "idle" =>
       /\ julian_N_min(cv.w) = ZAdd(ZNeg(ZPow2(cv.w - 3)), Z(365))
       /\ julian_N_max(cv.w) = ZSub(ZPow2(cv.w - 3), Z(1))
  /\ cv.pc \in {"converted", "trapped"} =>
       /\ cv.pc = "converted"
       /\ ~cv.ub
       /\ cv.date = DomainDate("julian", cv.N)
       /\ ZToInt(cv.date.month) \in 1..12
       /\ ZToInt(cv.date.day) \in
            1..(IF ZToInt(cv.date.month) # 2
                THEN last_day_of_month("julian", 1, ZToInt(cv.date.month))
                ELSE IF ZRemT(cv.date.year, Z(4)) = Z(0) THEN 29 ELSE 28)

\* N_min of int32_t is 18 September -1469872
C30_Witness ==
  /\ cv.pc = "converted" /\ cv.w = 32 /\ cv.N = julian_N_min(32)
  /\ cv.date = Date(Z(-1469872), Z(9), Z(18))

===========================================================================
